---- MODULE Spec2Model ----
(***************************************************************************)
(* Model of cert-code: the tool-output normalizers (tests, lint,           *)
(* typecheck), the collector's runners and the submission client.          *)
(*                                                                         *)
(* Tool output is a text: a sequence of lines.  A line is a record whose   *)
(* field k names the form of the line, with the fields the parsers'        *)
(* regular expressions and json.loads read from it.                        *)
(***************************************************************************)
EXTENDS Integers, Sequences, FiniteSets, TLC

VARIABLES
    family,     \* which tool family produced the captured output
    out,        \* captured standard output of the tool (a text)
    rc,         \* exit code of the tool
    op,         \* the operation applied: [name, tool, oc, stderr]
    res,        \* its outcome: a returned result or a raised exception
    trace,      \* the CodeTrace built around the result, or submitted
    payload,    \* trace.to_cert_trace()
    pc,         \* "input", "done" after the operation, "traced"
    config,     \* the client's CertCodeConfig
    http,       \* what the POST of a single submit did
    traces,     \* submit_batch: the traces, in input order
    concurrency, \* submit_batch: the concurrency argument
    sem,        \* submit_batch: value of the semaphore
    tasks,      \* submit_batch: one submit_with_semaphore task per trace
    order,      \* submit_batch: the tasks in the order they finished
    batch,      \* submit_batch: what the gather did
    flags,      \* cli submit: the --run-x / --no-x overrides
    options,    \* the CollectorOptions
    world,      \* what git and the three tools do when launched
    invoked,    \* the normalizers the collector invoked
    submits,    \* the number of client.submit calls
    patch,      \* the diff text given to the diff analyzer
    paths       \* the file list given to the language detector

normVars == <<family, out, rc, op, res, trace, payload, pc>>

batchVars == <<traces, concurrency, sem, tasks, order, batch>>

collectVars == <<flags, options, world, invoked, submits>>

diffVars == <<patch, paths>>

vars == <<family, out, rc, op, res, trace, payload, pc, config, http,
          traces, concurrency, sem, tasks, order, batch,
          flags, options, world, invoked, submits, patch, paths>>

----------------------------------------------------------------------------
(* Bounds of the model *)

MaxLines == 2       \* items of an output given to a parser
MaxRunLines == 1    \* items of the standard output of a tool that is run
MaxIssues == 51     \* issues in one JSON report / diagnostics in one run
MaxTraces == 3      \* traces given to submit_batch
MaxConcurrency == 2 \* concurrency given to submit_batch
MaxDiffLines == 3   \* lines of a diff text
MaxFiles == 5       \* paths in a file list
MaxContextFiles == 2 \* context files given to _load_context

(* Program constants *)

Limit == 50         \* errors[:50]
TruncateThreshold == 1000   \* if remaining > 1000
MarkerLen == 16     \* len("\n... (truncated)")

----------------------------------------------------------------------------
(* Python values *)

Return(v) == [exc |-> "none", val |-> v]
Raise(e) == [exc |-> e]
NoResult == [exc |-> "pending"]

\* a Python str built by formatting: the sequence of its pieces
Str(piece) == <<piece>>
Contains(str, piece) == \E i \in 1..Len(str) : str[i] = piece

\* Optional[...] values
None == <<>>
Some(v) == <<v>>

Get(d, key, default) == IF key \in DOMAIN d THEN d[key] ELSE default

Take(s, n) == IF Len(s) <= n THEN s ELSE SubSeq(s, 1, n)

RECURSIVE SumSeq(_)
SumSeq(s) == IF s = <<>> THEN 0 ELSE Head(s) + SumSeq(Tail(s))

RECURSIVE Flatten(_)
Flatten(ss) == IF ss = <<>> THEN <<>> ELSE Head(ss) \o Flatten(Tail(ss))

Indices(s, P(_)) == {i \in 1..Len(s) : P(s[i])}

Min(S) == CHOOSE x \in S : \A y \in S : x <= y
Max(S) == CHOOSE x \in S : \A y \in S : x >= y

----------------------------------------------------------------------------
(* Lines of text *)

Blank == [k |-> "blank"]

\* a line of prose with err/warn occurrences of the lower-case words
\* "error"/"warning" and Err/Warn occurrences in another case ("Error")
Txt(e, E, w, W) == [k |-> "text", err |-> e, Err |-> E, warn |-> w, Warn |-> W]

\* "<p> passed[, <f> failed][, <s> skipped][, <e> error][ in <secs>s]"
PySum(p, hasF, f, hasS, s, hasE, e, hasD, secs) ==
    [k |-> "pysum", p |-> p, hasF |-> hasF, f |-> f, hasS |-> hasS, s |-> s,
     hasE |-> hasE, e |-> e, hasD |-> hasD, secs |-> secs]

\* "test result: <status>. <p> passed; <f> failed; <i> ignored"
CargoLine(status, p, f, i) ==
    [k |-> "cargo", status |-> status, p |-> p, f |-> f, i |-> i]

\* one line holding a complete JSON document v
JsonLine(v) == [k |-> "json", v |-> v]

\* a fragment of a JSON document (truncated or corrupted); open/close tell
\* whether it contains "{" / "}"
Junk(open, close) == [k |-> "junk", open |-> open, close |-> close]

\* a message the runner itself writes, such as "Test timeout after <n>s"
Msg(text) == [k |-> "msg", text |-> text]

\* a type checker diagnostic, of the form
\*   "mypy"  <path>:<line>: error: <message>
\*   "tsc"   <path>(<line>,<col>): error TS<code>: <message>
\*   "govet" <path>:<line>:<col>: <message>
Diag(form) == [k |-> form]

(* JSON documents, as json.loads returns them *)

JDict(d) == [t |-> "dict", d |-> d]
JList(items) == [t |-> "list", items |-> items]
JStr(chars) == [t |-> "str", s |-> chars]      \* a sequence of characters
JInt == [t |-> "int"]
JNull == [t |-> "null"]

IsBlankLine(l) == l.k = "blank"

\* str.strip().split("\n") followed by "if not line.strip(): continue"
NonBlankLines(text) == SelectSeq(text, LAMBDA l : ~IsBlankLine(l))

\* json.loads(line) for one line: the document, or JSONDecodeError
JsonLoadsLine(l) ==
    IF l.k = "json" THEN [ok |-> TRUE, v |-> l.v] ELSE [ok |-> FALSE]

\* json.loads(text): surrounding whitespace is ignored, anything else next
\* to the document is "Extra data"
JsonLoads(text) ==
    LET nb == NonBlankLines(text)
    IN  IF Len(nb) = 1 THEN JsonLoadsLine(nb[1]) ELSE [ok |-> FALSE]

----------------------------------------------------------------------------
(* analyzers/tests.py *)

TestResults(passed, total, failed, skipped, duration_ms, output, framework) ==
    [passed |-> passed, total |-> total, failed |-> failed,
     skipped |-> skipped, duration_ms |-> duration_ms, output |-> output,
     framework |-> framework]

\* TestResults.success_rate, as the fraction <<numerator, denominator>>
success_rate(self) ==
    IF self.total = 0 THEN <<1, 1>>
    ELSE <<self.total - self.failed - self.skipped, self.total>>

parse_generic_test_output(output, returncode, framework) ==
    Return(TestResults(returncode = 0, 0, 0, 0, 0, output, framework))

parse_pytest(output, returncode, framework) ==
    LET ms == Indices(output, LAMBDA l : l.k = "pysum")
        found == ms # {}
        m == output[Min(ms)]
        passed_count == IF found THEN m.p ELSE 0
        error_count == IF found /\ m.hasE THEN m.e ELSE 0
        failed_count == (IF found /\ m.hasF THEN m.f ELSE 0) + error_count
        skipped_count == IF found /\ m.hasS THEN m.s ELSE 0
        ds == Indices(output, LAMBDA l : l.k = "pysum" /\ l.hasD)
        duration_ms == IF ds # {} THEN output[Min(ds)].secs * 1000 ELSE 0
    IN  Return(TestResults(returncode = 0 /\ failed_count = 0,
                           passed_count + failed_count + skipped_count,
                           failed_count, skipped_count, duration_ms,
                           output, framework))

HasOpenBrace(l) == (l.k = "json" /\ l.v.t = "dict") \/ (l.k = "junk" /\ l.open)
HasCloseBrace(l) == (l.k = "json" /\ l.v.t = "dict") \/ (l.k = "junk" /\ l.close)

parse_jest(output, returncode, framework) ==
    LET opens == Indices(output, HasOpenBrace)
        closes == Indices(output, HasCloseBrace)
        json_start == IF opens = {} THEN 0 ELSE Min(opens)
        json_end == IF closes = {} THEN 0 ELSE Max(closes)
        sliced == json_start >= 1 /\ json_end >= json_start
        \* output[json_start:json_end] is one document only when the first
        \* "{" and the last "}" are on the same line and that line is JSON
        doc == IF sliced /\ json_start = json_end
               THEN JsonLoadsLine(output[json_start])
               ELSE [ok |-> FALSE]
        data == doc.v.d
        suites == Get(data, "testResults", << <<>> >>)
        fallback == parse_generic_test_output(output, returncode, framework)
    IN  IF ~sliced THEN fallback
        ELSE IF ~doc.ok THEN fallback                 \* JSONDecodeError
        ELSE IF Len(suites) = 0 THEN fallback         \* IndexError
        ELSE Return(TestResults(
                 Get(data, "success", FALSE),
                 Get(data, "numTotalTests", 0),
                 Get(data, "numFailedTests", 0),
                 Get(data, "numPendingTests", 0),
                 Get(suites[1], "endTime", 0) - Get(suites[1], "startTime", 0),
                 output, framework))

RECURSIVE go_test_loop(_, _)
\* the for loop of parse_go_test over the remaining lines; acc holds the
\* counters, or the exception that left the loop
go_test_loop(lines, acc) ==
    IF lines = <<>> \/ acc.exc # "none" THEN acc
    ELSE LET doc == JsonLoadsLine(Head(lines))
             event == doc.v.d
             action == Get(event, "Action", "None")
             elapsed == Get(event, "Elapsed", 0)
         IN  IF ~doc.ok THEN go_test_loop(Tail(lines), acc)
             ELSE IF doc.v.t # "dict"
                  THEN [acc EXCEPT !.exc = "AttributeError"]
             ELSE go_test_loop(Tail(lines),
                    [acc EXCEPT
                       !.passed = @ + (IF action = "pass" THEN 1 ELSE 0),
                       !.failed = @ + (IF action = "fail" THEN 1 ELSE 0),
                       !.skipped = @ + (IF action = "skip" THEN 1 ELSE 0),
                       !.duration_ms = IF elapsed # 0 THEN elapsed * 1000 ELSE @])

parse_go_test(output, returncode, framework) ==
    LET acc == go_test_loop(NonBlankLines(output),
                   [exc |-> "none", passed |-> 0, failed |-> 0,
                    skipped |-> 0, duration_ms |-> 0])
    IN  IF acc.exc # "none" THEN Raise(acc.exc)
        ELSE Return(TestResults(returncode = 0 /\ acc.failed = 0,
                                acc.passed + acc.failed + acc.skipped,
                                acc.failed, acc.skipped, acc.duration_ms,
                                output, framework))

parse_cargo_test(output, returncode, framework) ==
    LET ms == Indices(output, LAMBDA l : l.k = "cargo")
        m == output[Min(ms)]
    IN  IF ms # {}
        THEN Return(TestResults(m.status = "ok", m.p + m.f + m.i, m.f, m.i,
                                0, output, framework))
        ELSE parse_generic_test_output(output, returncode, framework)

\* _get_parser(framework)(output, returncode, framework)
test_parser(framework, output, returncode) ==
    CASE framework = Str("pytest") -> parse_pytest(output, returncode, framework)
      [] framework \in {Str("jest"), Str("npm")} -> parse_jest(output, returncode, framework)
      [] framework = Str("go test") -> parse_go_test(output, returncode, framework)
      [] framework = Str("cargo test") -> parse_cargo_test(output, returncode, framework)
      [] OTHER -> parse_generic_test_output(output, returncode, framework)

----------------------------------------------------------------------------
(* integrations/jest.py, integrations/pytest.py *)

\* the line holds the characters {" : a dict with a key, or a piece of one
HasOpenBraceQuote(l) ==
    \/ l.k = "json" /\ l.v.t = "dict" /\ DOMAIN l.v.d # {}
    \/ l.k = "junk" /\ l.open

\* JestIntegration._report_to_results, the loop over report.testSuites
jest_duration(suites) ==
    SumSeq([i \in 1..Len(suites) |->
              Get(suites[i], "endTime", 0) - Get(suites[i], "startTime", 0)])

\* JestIntegration.run from "# Parse JSON output" on: _parse_json_output,
\* then _report_to_results or _parse_text_output
JestIntegration_results(output, returncode) ==
    LET opens == Indices(output, HasOpenBraceQuote)
        closes == Indices(output, HasCloseBrace)
        json_start == IF opens = {} THEN 0 ELSE Min(opens)
        json_end == IF closes = {} THEN 0 ELSE Max(closes)
        sliced == json_start >= 1 /\ json_end >= json_start
        doc == IF sliced /\ json_start = json_end
               THEN JsonLoadsLine(output[json_start])
               ELSE [ok |-> FALSE]
        text == Return(TestResults(returncode = 0, 0, 0, 0, 0, output,
                                   Str("jest")))
        report(data) ==
            Return(TestResults(
                Get(data, "success", FALSE) /\ Get(data, "numFailedTests", 0) = 0,
                Get(data, "numTotalTests", 0),
                Get(data, "numFailedTests", 0),
                Get(data, "numPendingTests", 0),
                jest_duration(Get(data, "testResults", <<>>)),
                output, Str("jest")))
    IN  IF ~sliced THEN text
        ELSE IF ~doc.ok THEN text                     \* JSONDecodeError
        ELSE report(doc.v.d)

\* '{"created":' is in the line: it holds a pytest-json-report document
HasCreated(l) ==
    l.k = "json" /\ l.v.t = "dict" /\ "created" \in DOMAIN l.v.d

\* PytestIntegration._report_to_results
pytest_report_to_results(report, output) ==
    Return(TestResults(report.exit_code = 0 /\ report.failed = 0,
                       report.passed + report.failed + report.skipped,
                       report.failed + report.errors,
                       report.skipped,
                       report.duration * 1000,
                       output, Str("pytest")))

\* PytestIntegration.run from "# Try to parse JSON report" on:
\* _parse_json_report, then _report_to_results or _parse_text_output
PytestIntegration_results(output, returncode) ==
    LET starts == Indices(output, HasCreated)
        json_start == IF starts = {} THEN 0 ELSE Max(starts)
        \* output[json_start:] is one document when only blank lines follow
        doc == IF \A i \in (json_start + 1)..Len(output) : IsBlankLine(output[i])
               THEN JsonLoadsLine(output[json_start])
               ELSE [ok |-> FALSE]
        parsed(data) ==
            LET summary == Get(data, "summary", <<>>)
            IN  [passed |-> Get(summary, "passed", 0),
                 failed |-> Get(summary, "failed", 0),
                 skipped |-> Get(summary, "skipped", 0),
                 errors |-> Get(summary, "error", 0),
                 duration |-> Get(data, "duration", 0),
                 exit_code |-> Get(data, "exitcode", 0)]
    IN  IF json_start = 0 THEN parse_pytest(output, returncode, Str("pytest"))
        ELSE IF ~doc.ok THEN parse_pytest(output, returncode, Str("pytest"))
        ELSE pytest_report_to_results(parsed(doc.v.d), output)

----------------------------------------------------------------------------
(* Occurrences of the words "error" and "warning" in a line *)

ClippyLevel(l) ==
    IF l.k = "json" /\ l.v.t = "dict" /\ "message" \in DOMAIN l.v.d
    THEN Get(l.v.d["message"], "level", "")
    ELSE ""

\* str.count(word): occurrences in exactly the lower case
CountLower(l, word) ==
    CASE l.k = "text" -> (IF word = "error" THEN l.err ELSE l.warn)
      [] l.k \in {"mypy", "tsc"} -> (IF word = "error" THEN 1 ELSE 0)
      [] l.k = "json" -> (IF ClippyLevel(l) = word THEN 1 ELSE 0)
      [] OTHER -> 0

\* str.lower().count(word): occurrences in any case
CountAnyCase(l, word) ==
    CountLower(l, word) +
    (IF l.k = "text" THEN (IF word = "error" THEN l.Err ELSE l.Warn) ELSE 0)

\* sum(1 for line in text.split("\n") if word in line.lower())
LinesContaining(text, word) ==
    Len(SelectSeq(text, LAMBDA l : CountAnyCase(l, word) > 0))

----------------------------------------------------------------------------
(* analyzers/lint.py *)

LintResults(passed, error_count, warning_count, errors, tool) ==
    [passed |-> passed, error_count |-> error_count,
     warning_count |-> warning_count, errors |-> errors, tool |-> tool]

parse_generic_lint_output(output, returncode, tool) ==
    Return(LintResults(returncode = 0, LinesContaining(output, "error"),
                       LinesContaining(output, "warning"), <<>>, tool))

StartsWith(str, ch) == Len(str.s) > 0 /\ str.s[1] = ch

\* "for x in data" over a decoded document: the exception it raises, if any
IterError(data) ==
    CASE data.t = "list" -> "none"
      [] data.t = "dict" -> "none"          \* iterates over the keys
      [] OTHER -> "TypeError"               \* not iterable

\* the items "for x in data" yields: list items, or the keys of a dict
IterItems(data) ==
    CASE data.t = "list" -> data.items
      [] data.t = "dict" ->
           LET keys == DOMAIN data.d
               f == CHOOSE g \in [1..Cardinality(keys) -> keys] :
                        \A i, j \in 1..Cardinality(keys) : i # j => g[i] # g[j]
           IN  [i \in 1..Cardinality(keys) |-> JStr(<<f[i]>>)]
      [] OTHER -> <<>>

IsDictValue(x) == x.t = "dict"

ruff_entry(issue) ==
    [file |-> Get(issue, "filename", ""),
     line |-> Get(Get(issue, "location", <<>>), "row", 0),
     column |-> Get(Get(issue, "location", <<>>), "column", 0),
     code |-> Get(issue, "code", JStr(<<>>)),
     message |-> Get(issue, "message", "")]

ruff_is_error(issue) ==
    LET code == Get(issue, "code", JStr(<<>>))
    IN  StartsWith(code, "E") \/ StartsWith(code, "F")

\* parse_ruff counting the errors after the list is cut
parse_ruff_counts_cut_list(output, returncode, tool) ==
    LET doc == JsonLoads(output)
        data == doc.v
        items == IterItems(data)
        bad == \E i \in 1..Len(items) :
                  \/ ~IsDictValue(items[i])
                  \/ Get(items[i].d, "code", JStr(<<>>)).t # "str"
        issues == [i \in 1..Len(items) |-> items[i].d]
        errors == Take([i \in 1..Len(SelectSeq(issues, ruff_is_error)) |->
                          ruff_entry(SelectSeq(issues, ruff_is_error)[i])], Limit)
        warnings == SelectSeq(issues, LAMBDA x : ~ruff_is_error(x))
    IN  IF ~doc.ok
        THEN Return(LintResults(returncode = 0,
                                SumSeq([i \in 1..Len(output) |-> CountLower(output[i], "error")]),
                                SumSeq([i \in 1..Len(output) |-> CountLower(output[i], "warning")]),
                                <<>>, tool))
        ELSE IF IterError(data) # "none" THEN Raise(IterError(data))
        ELSE IF bad THEN Raise("AttributeError")
        ELSE Return(LintResults(Len(errors) = 0, Len(errors), Len(warnings),
                                errors, tool))

parse_ruff(output, returncode, tool) ==
    LET doc == JsonLoads(output)
        data == doc.v
        items == IterItems(data)
        bad == \E i \in 1..Len(items) :
                  \/ ~IsDictValue(items[i])                 \* issue.get
                  \/ Get(items[i].d, "code", JStr(<<>>)).t # "str"  \* .startswith
        issues == [i \in 1..Len(items) |-> items[i].d]
        errors == [i \in 1..Len(SelectSeq(issues, ruff_is_error)) |->
                     ruff_entry(SelectSeq(issues, ruff_is_error)[i])]
        warnings == SelectSeq(issues, LAMBDA x : ~ruff_is_error(x))
    IN  IF ~doc.ok
        THEN Return(LintResults(returncode = 0,
                                SumSeq([i \in 1..Len(output) |-> CountLower(output[i], "error")]),
                                SumSeq([i \in 1..Len(output) |-> CountLower(output[i], "warning")]),
                                <<>>, tool))
        ELSE IF IterError(data) # "none" THEN Raise(IterError(data))
        ELSE IF bad THEN Raise("AttributeError")
        ELSE Return(LintResults(Len(errors) = 0, Len(errors), Len(warnings),
                                Take(errors, Limit), tool))

eslint_entry(m) ==
    [file |-> m.filePath, line |-> Get(m.message, "line", 0),
     column |-> Get(m.message, "column", 0),
     code |-> Get(m.message, "ruleId", ""),
     message |-> Get(m.message, "message", "")]

parse_eslint(output, returncode, tool) ==
    LET doc == JsonLoads(output)
        data == doc.v
        items == IterItems(data)
        bad == \E i \in 1..Len(items) : ~IsDictValue(items[i])   \* file_result.get
        \* every message, paired with the filePath of its file result
        per_file == [i \in 1..Len(items) |->
                       LET msgs == Get(items[i].d, "messages", <<>>)
                       IN  [j \in 1..Len(msgs) |->
                              [filePath |-> Get(items[i].d, "filePath", ""),
                               message |-> msgs[j]]]]
        messages == Flatten(per_file)
        is_error(m) == Get(m.message, "severity", 0) = 2
        errs == SelectSeq(messages, is_error)
        errors == [i \in 1..Len(errs) |-> eslint_entry(errs[i])]
        warnings == SelectSeq(messages, LAMBDA m : ~is_error(m))
    IN  IF ~doc.ok
        THEN Return(LintResults(returncode = 0,
                                SumSeq([i \in 1..Len(output) |-> CountAnyCase(output[i], "error")]),
                                SumSeq([i \in 1..Len(output) |-> CountAnyCase(output[i], "warning")]),
                                <<>>, tool))
        ELSE IF IterError(data) # "none" THEN Raise(IterError(data))
        ELSE IF bad THEN Raise("AttributeError")
        ELSE Return(LintResults(Len(errors) = 0, Len(errors), Len(warnings),
                                Take(errors, Limit), tool))

golangci_entry(issue) ==
    [file |-> Get(Get(issue, "Pos", <<>>), "Filename", ""),
     line |-> Get(Get(issue, "Pos", <<>>), "Line", 0),
     column |-> Get(Get(issue, "Pos", <<>>), "Column", 0),
     code |-> Get(issue, "FromLinter", ""),
     message |-> Get(issue, "Text", "")]

parse_golangci(output, returncode, tool) ==
    LET doc == JsonLoads(output)
        data == doc.v
        issues == Get(data.d, "Issues", JList(<<>>))
        errors == [i \in 1..Len(issues.items) |-> golangci_entry(issues.items[i])]
    IN  IF ~doc.ok
        THEN Return(LintResults(returncode = 0,
                                Len(NonBlankLines(output)),
                                0, <<>>, tool))
        ELSE IF data.t # "dict" THEN Raise("AttributeError")     \* data.get
        ELSE IF IterError(issues) # "none" THEN Raise(IterError(issues))
        ELSE Return(LintResults(Len(errors) = 0, Len(errors), 0,
                                Take(errors, Limit), tool))

clippy_entry(message) ==
    LET spans == Get(message, "spans", <<>>)
        code == Get(message, "code", <<>>)
    IN  [file |-> IF spans # <<>> THEN Get(spans[1], "file_name", "") ELSE "",
         line |-> IF spans # <<>> THEN Get(spans[1], "line_start", 0) ELSE 0,
         code |-> IF code # <<>> THEN Get(code, "code", "") ELSE "",
         message |-> Get(message, "message", "")]

\* the compiler messages of the given level that parse_clippy collects
clippy_messages(docs, level) ==
    LET hit(v) == /\ Get(v.d, "reason", "") = "compiler-message"
                  /\ Get(Get(v.d, "message", <<>>), "level", "") = level
        sel == SelectSeq(docs, hit)
    IN  [i \in 1..Len(sel) |-> clippy_entry(Get(sel[i].d, "message", <<>>))]

parse_clippy(output, returncode, tool) ==
    LET lines == SelectSeq(NonBlankLines(output), LAMBDA l : JsonLoadsLine(l).ok)
        docs == [i \in 1..Len(lines) |-> lines[i].v]
        bad == \E i \in 1..Len(docs) : docs[i].t # "dict"          \* data.get
        errors == clippy_messages(docs, "error")
        warnings == clippy_messages(docs, "warning")
    IN  IF bad THEN Raise("AttributeError")
        ELSE Return(LintResults(Len(errors) = 0, Len(errors), Len(warnings),
                                Take(errors, Limit), tool))

\* _get_parser(tool)(output, returncode, tool)
lint_parser(tool, output, returncode) ==
    CASE tool = Str("ruff") -> parse_ruff(output, returncode, tool)
      [] tool = Str("eslint") -> parse_eslint(output, returncode, tool)
      [] tool = Str("golangci-lint") -> parse_golangci(output, returncode, tool)
      [] tool = Str("clippy") -> parse_clippy(output, returncode, tool)
      [] OTHER -> parse_generic_lint_output(output, returncode, tool)

----------------------------------------------------------------------------
(* analyzers/typecheck.py *)

TypeCheckResults(passed, error_count, errors, tool) ==
    [passed |-> passed, error_count |-> error_count, errors |-> errors,
     tool |-> tool]

\* error_pattern.finditer(output): one entry per diagnostic of the form
diag_matches(output, form) ==
    LET hits == SelectSeq([i \in 1..Len(output) |-> [l |-> output[i], at |-> i]],
                          LAMBDA x : x.l.k = form)
    IN  [i \in 1..Len(hits) |-> [file |-> "path", line |-> hits[i].at]]

parse_mypy(output, returncode, tool) ==
    LET errors == diag_matches(output, "mypy")
    IN  Return(TypeCheckResults(Len(errors) = 0 /\ returncode = 0, Len(errors),
                                Take(errors, Limit), tool))

parse_tsc(output, returncode, tool) ==
    LET errors == diag_matches(output, "tsc")
    IN  Return(TypeCheckResults(Len(errors) = 0 /\ returncode = 0, Len(errors),
                                Take(errors, Limit), tool))

parse_go_vet(output, returncode, tool) ==
    LET errors == diag_matches(output, "govet")
    IN  Return(TypeCheckResults(Len(errors) = 0 /\ returncode = 0, Len(errors),
                                Take(errors, Limit), tool))

parse_generic_typecheck_output(output, returncode, tool) ==
    Return(TypeCheckResults(returncode = 0, LinesContaining(output, "error"),
                            <<>>, tool))

\* _get_parser(tool)(output, returncode, tool)
typecheck_parser(tool, output, returncode) ==
    CASE tool = Str("mypy") -> parse_mypy(output, returncode, tool)
      [] tool = Str("tsc") -> parse_tsc(output, returncode, tool)
      [] tool = Str("go vet") -> parse_go_vet(output, returncode, tool)
      [] OTHER -> parse_generic_typecheck_output(output, returncode, tool)

----------------------------------------------------------------------------
(* Running the external tool.  oc is what subprocess.run did:              *)
(*   "completed"  the tool exited with returncode after writing stdout and *)
(*                stderr                                                   *)
(*   "timeout"    TimeoutExpired, stdout holding the partial output        *)
(*   "notfound"   FileNotFoundError                                        *)
(*   "oserror"    any other exception, e.g. PermissionError                *)
(***************************************************************************)

Outcomes == {"completed", "timeout", "notfound", "oserror"}

\* result.stdout + "\n" + result.stderr
Combined(stdout, stderr) == stdout \o <<Blank>> \o stderr

\* run_tests from "# Run tests" on, framework being already determined
run_tests(framework, oc, stdout, stderr, returncode) ==
    CASE oc = "completed" ->
           test_parser(framework, Combined(stdout, stderr), returncode)
      [] oc = "timeout" ->
           test_parser(framework,
                       <<Msg("Test timeout after")>> \o stdout \o <<Blank>> \o stderr,
                       -1)
      [] oc = "notfound" ->
           Return(TestResults(FALSE, 0, 0, 0, 0,
                              <<Msg("Test command not found")>>, framework))
      [] oc = "oserror" ->
           Return(TestResults(FALSE, 0, 0, 0, 0,
                              <<Msg("Error running tests")>>, framework))

\* run_lint; tool = None when there is neither a command nor a default
\* linter for the language
run_lint(tool, oc, stdout, stderr, returncode) ==
    IF tool = None THEN Return(LintResults(TRUE, 0, 0, <<>>, Str("none")))
    ELSE CASE oc = "completed" ->
                lint_parser(tool[1], Combined(stdout, stderr), returncode)
           [] oc = "timeout" ->
                Return(LintResults(FALSE, 1, 0,
                                   <<[message |-> "Lint timeout after"]>>, tool[1]))
           [] oc = "notfound" ->
                Return(LintResults(TRUE, 0, 0, <<>>, tool[1] \o Str(" (not found)")))
           [] oc = "oserror" ->
                Return(LintResults(FALSE, 1, 0,
                                   <<[message |-> "Error running linter"]>>, tool[1]))

run_typecheck(tool, oc, stdout, stderr, returncode) ==
    IF tool = None THEN Return(TypeCheckResults(TRUE, 0, <<>>, Str("none")))
    ELSE CASE oc = "completed" ->
                typecheck_parser(tool[1], Combined(stdout, stderr), returncode)
           [] oc = "timeout" ->
                Return(TypeCheckResults(FALSE, 1,
                                        <<[message |-> "Type check timeout after"]>>,
                                        tool[1]))
           [] oc = "notfound" ->
                Return(TypeCheckResults(TRUE, 0, <<>>, tool[1] \o Str(" (not found)")))
           [] oc = "oserror" ->
                Return(TypeCheckResults(FALSE, 1,
                                        <<[message |-> "Error running type checker"]>>,
                                        tool[1]))

(* collector.py: the runners the Verification Builder calls *)

\* CodeCollector._run_lint; cmd = None when lint_command is unset and the
\* language has no linter
collector_run_lint(cmd, oc, stdout, returncode) ==
    IF cmd = None THEN Return(LintResults(TRUE, 0, 0, <<>>, Str("none")))
    ELSE CASE oc = "completed" ->
                Return(LintResults(returncode = 0,
                                   LinesContaining(stdout, "error"),
                                   LinesContaining(stdout, "warning"),
                                   <<>>, cmd[1]))
           [] oc \in {"timeout", "notfound"} ->
                Return(LintResults(TRUE, 0, 0, <<>>, Str("failed")))
           [] oc = "oserror" -> Raise("OSError")

\* CodeCollector._run_typecheck
collector_run_typecheck(cmd, oc, stdout, returncode) ==
    IF cmd = None THEN Return(TypeCheckResults(TRUE, 0, <<>>, Str("none")))
    ELSE CASE oc = "completed" ->
                Return(TypeCheckResults(returncode = 0,
                                        LinesContaining(stdout, "error"),
                                        <<>>, cmd[1]))
           [] oc \in {"timeout", "notfound"} ->
                Return(TypeCheckResults(TRUE, 0, <<>>, Str("failed")))
           [] oc = "oserror" -> Raise("OSError")

----------------------------------------------------------------------------
(* models.py *)

DiffStats(additions, deletions, files_changed) ==
    [additions |-> additions, deletions |-> deletions,
     files_changed |-> files_changed]

\* DiffStats.to_dict
DiffStats_to_dict(self) ==
    [additions |-> self.additions, deletions |-> self.deletions,
     files |-> self.files_changed]

CodeVerification(parseable, tests, lint, typecheck) ==
    [parseable |-> parseable, tests |-> tests, lint |-> lint,
     typecheck |-> typecheck]

\* CodeVerification.all_passed if a result without counts were falsy, as a
\* container is
all_passed_skipping_empty(self) ==
    /\ self.parseable
    /\ ~(self.tests # None /\ self.tests[1].total > 0 /\ ~self.tests[1].passed)
    /\ ~(self.lint # None /\ self.lint[1].error_count > 0 /\ ~self.lint[1].passed)
    /\ ~(self.typecheck # None /\ self.typecheck[1].error_count > 0
            /\ ~self.typecheck[1].passed)

\* CodeVerification.all_passed; an instance of a dataclass is truthy
all_passed(self) ==
    IF ~self.parseable THEN FALSE
    ELSE IF self.tests # None /\ ~self.tests[1].passed THEN FALSE
    ELSE IF self.lint # None /\ ~self.lint[1].passed THEN FALSE
    ELSE IF self.typecheck # None /\ ~self.typecheck[1].passed THEN FALSE
    ELSE TRUE

CodeTrace(task, artifact, verification, context, project_id) ==
    [task |-> task, artifact |-> artifact, verification |-> verification,
     context |-> context, project_id |-> project_id, trace_id |-> None,
     created_at |-> "utcnow"]

\* Python truthiness of an Optional[str]
Truthy(x) == x # None /\ x[1] # ""

\* a conversion that leaves out the keys of the signals that are absent
to_cert_trace_omitting_absent(self) ==
    LET v == self.verification
    IN  [name |-> <<"code-gen: ", self.task.description>>,
         kind |-> "code",
         evaluation_mode |-> "code",
         eval_mode |-> "code",
         input_text |-> self.task.description,
         output_text |-> self.artifact.diff,
         context |-> self.context,
         knowledge_base |-> self.context,
         is_grounded |-> self.context # None,
         context_source |-> IF Truthy(self.context) THEN Some("user_provided") ELSE None,
         code_language |-> self.artifact.language,
         code_files_changed |-> self.artifact.files_changed,
         code_diff_stats |-> DiffStats_to_dict(self.artifact.diff_stats),
         code_parseable |-> v.parseable,
         metadata |->
            [cert_code_version |-> "0.1.0",
             tool |-> self.task.tool,
             conversation_id |-> self.task.conversation_id]
            @@ (IF v.tests # None
                THEN [test_framework |-> Some(v.tests[1].framework),
                      test_output |-> Some(v.tests[1].output)]
                ELSE <<>>)
            @@ (IF v.lint # None
                THEN [lint_tool |-> Some(v.lint[1].tool),
                      lint_errors_detail |-> Some(Take(v.lint[1].errors, Limit))]
                ELSE <<>>)
            @@ (IF v.typecheck # None
                THEN [typecheck_tool |-> Some(v.typecheck[1].tool),
                      typecheck_errors_detail |->
                          Some(Take(v.typecheck[1].errors, Limit))]
                ELSE <<>>),
         start_time |-> self.created_at,
         source |-> "cert-code"]
        @@ (IF v.tests # None
            THEN [code_tests_passed |-> Some(v.tests[1].passed),
                  code_tests_total |-> Some(v.tests[1].total),
                  code_tests_failed |-> Some(v.tests[1].failed)]
            ELSE <<>>)
        @@ (IF v.typecheck # None
            THEN [code_type_check_passed |-> Some(v.typecheck[1].passed)]
            ELSE <<>>)
        @@ (IF v.lint # None THEN [code_lint_errors |-> v.lint[1].error_count]
            ELSE <<>>)
        @@ (IF Truthy(self.project_id) THEN [project_id |-> self.project_id[1]] ELSE <<>>)
        @@ (IF Truthy(self.trace_id) THEN [trace_id |-> self.trace_id[1]] ELSE <<>>)

\* CodeTrace.to_cert_trace
to_cert_trace(self) ==
    LET v == self.verification
    IN  [name |-> <<"code-gen: ", self.task.description>>,
         kind |-> "code",
         evaluation_mode |-> "code",
         eval_mode |-> "code",
         input_text |-> self.task.description,
         output_text |-> self.artifact.diff,
         context |-> self.context,
         knowledge_base |-> self.context,
         is_grounded |-> self.context # None,
         context_source |-> IF Truthy(self.context) THEN Some("user_provided") ELSE None,
         code_language |-> self.artifact.language,
         code_files_changed |-> self.artifact.files_changed,
         code_diff_stats |-> DiffStats_to_dict(self.artifact.diff_stats),
         code_parseable |-> v.parseable,
         code_tests_passed |-> IF v.tests # None THEN Some(v.tests[1].passed) ELSE None,
         code_tests_total |-> IF v.tests # None THEN Some(v.tests[1].total) ELSE None,
         code_tests_failed |-> IF v.tests # None THEN Some(v.tests[1].failed) ELSE None,
         code_type_check_passed |->
             IF v.typecheck # None THEN Some(v.typecheck[1].passed) ELSE None,
         code_lint_errors |-> IF v.lint # None THEN v.lint[1].error_count ELSE 0,
         metadata |->
            [cert_code_version |-> "0.1.0",
             tool |-> self.task.tool,
             conversation_id |-> self.task.conversation_id,
             test_framework |-> IF v.tests # None THEN Some(v.tests[1].framework) ELSE None,
             test_output |-> IF v.tests # None THEN Some(v.tests[1].output) ELSE None,
             lint_tool |-> IF v.lint # None THEN Some(v.lint[1].tool) ELSE None,
             lint_errors_detail |->
                 IF v.lint # None THEN Some(Take(v.lint[1].errors, Limit)) ELSE None,
             typecheck_tool |->
                 IF v.typecheck # None THEN Some(v.typecheck[1].tool) ELSE None,
             typecheck_errors_detail |->
                 IF v.typecheck # None THEN Some(Take(v.typecheck[1].errors, Limit))
                 ELSE None],
         start_time |-> self.created_at,
         source |-> "cert-code"]
        @@ (IF Truthy(self.project_id) THEN [project_id |-> self.project_id[1]] ELSE <<>>)
        @@ (IF Truthy(self.trace_id) THEN [trace_id |-> self.trace_id[1]] ELSE <<>>)

----------------------------------------------------------------------------
(* analyzers/diff.py *)

\* A path is the sequence of its pieces between the dots: "src/main.py" is
\* <<"src/main", "py">>, "Makefile" is <<"Makefile">>.
\* A line of a diff is a `diff --git` header or a sequence of characters;
\* a text is the non-empty sequence of the lines split("\n") gives, the
\* empty string being one empty line.
DiffHeader(old, new, quoted) ==
    [k |-> "hdr", old |-> old, new |-> new, quoted |-> quoted]
DiffLine(chars) == [k |-> "txt", s |-> chars]

EmptyText == <<DiffLine(<<>>)>>

\* line.startswith(c * n)
starts_with(line, c, n) ==
    /\ line.k = "txt"
    /\ Len(line.s) >= n
    /\ \A i \in 1..n : line.s[i] = c

\* str.lower on the last piece of a path
Lower(piece) ==
    CASE piece = "PY" -> "py"
      [] piece = "TS" -> "ts"
      [] OTHER -> piece

EXTENSION_LANGUAGE_MAP ==
    [py |-> "python", pyi |-> "python",
     js |-> "javascript", mjs |-> "javascript", cjs |-> "javascript",
     jsx |-> "javascript",
     ts |-> "typescript", tsx |-> "typescript",
     go |-> "go", rs |-> "rust", java |-> "java",
     c |-> "c", h |-> "c",
     cpp |-> "cpp", cc |-> "cpp", cxx |-> "cpp", hpp |-> "cpp",
     cs |-> "csharp", rb |-> "ruby", php |-> "php", swift |-> "swift",
     kt |-> "kotlin", kts |-> "kotlin", scala |-> "scala",
     sh |-> "shell", bash |-> "shell", zsh |-> "shell",
     sql |-> "sql", html |-> "html", htm |-> "html",
     css |-> "css", scss |-> "css", sass |-> "css", less |-> "css"]

priority_extensions ==
    {"py", "js", "ts", "go", "rs", "java", "c", "cpp", "cs", "rb", "php",
     "swift", "kt", "scala"}

\* "." + file_path.rsplit(".", 1)[-1].lower(), without its dot; None when
\* the path has no dot
extension(file_path) ==
    IF Len(file_path) > 1 THEN Some(Lower(file_path[Len(file_path)]))
    ELSE None

detect_language(file_path) ==
    LET ext == extension(file_path)
    IN  IF ext = None THEN "other"
        ELSE Get(EXTENSION_LANGUAGE_MAP, ext[1], "other")

\* every mapped file counts the same
weight_of_unweighted(file_path) == 1

\* detect_primary_language, "Weight by priority", for a path with a dot
weight_of(file_path) ==
    IF extension(file_path)[1] \in priority_extensions THEN 2 ELSE 1

\* the loop of detect_primary_language: language_counts as the sequence of
\* its (language, count) entries in insertion order
RECURSIVE language_counts(_)
language_counts(files) ==
    IF files = <<>> THEN <<>>
    ELSE LET counts == language_counts(SubSeq(files, 1, Len(files) - 1))
             file_path == files[Len(files)]
             lang == detect_language(file_path)
             weight == weight_of(file_path)
             at == {i \in 1..Len(counts) : counts[i].lang = lang}
         IN  IF lang = "other" THEN counts
             ELSE IF at = {}
             THEN Append(counts, [lang |-> lang, n |-> weight])
             ELSE [i \in 1..Len(counts) |->
                     IF i \in at
                     THEN [lang |-> lang, n |-> counts[i].n + weight]
                     ELSE counts[i]]

\* the last entry with the largest count
last_max(counts) ==
    LET top == CHOOSE i \in 1..Len(counts) :
                 /\ \A j \in 1..Len(counts) : counts[j].n <= counts[i].n
                 /\ \A j \in (i + 1)..Len(counts) : counts[j].n < counts[i].n
    IN  counts[top].lang

\* max(language_counts, key=language_counts.get): the first entry with the
\* largest count
first_max(counts) ==
    LET top == CHOOSE i \in 1..Len(counts) :
                 /\ \A j \in 1..Len(counts) : counts[j].n <= counts[i].n
                 /\ \A j \in 1..(i - 1) : counts[j].n < counts[i].n
    IN  counts[top].lang

detect_primary_language(files) ==
    IF files = <<>> THEN "other"
    ELSE LET counts == language_counts(files)
         IN  IF counts = <<>> THEN "other" ELSE first_max(counts)

\* DIFF_FILE_PATTERN: the line is `diff --git a/<old> b/<new>`
matches_file_pattern(line) == line.k = "hdr" /\ ~line.quoted

\* parse_diff, the first loop
RECURSIVE new_paths(_)
new_paths(diff) ==
    IF diff = <<>> THEN <<>>
    ELSE LET seen == new_paths(SubSeq(diff, 1, Len(diff) - 1))
             line == diff[Len(diff)]
         IN  IF matches_file_pattern(line)
                /\ \A i \in 1..Len(seen) : seen[i] # line.new
             THEN Append(seen, line.new)
             ELSE seen

\* every line that starts with "+", the file markers too
is_addition_with_markers(line) == starts_with(line, "+", 1)

is_addition(line) == starts_with(line, "+", 1) /\ ~starts_with(line, "+", 3)

\* the elif branch of the counting loop
is_deletion(line) ==
    /\ ~is_addition(line)
    /\ starts_with(line, "-", 1) /\ ~starts_with(line, "-", 3)

CodeArtifact(diff, files_changed, language, diff_stats) ==
    [diff |-> diff, files_changed |-> files_changed, language |-> language,
     diff_stats |-> diff_stats]

\* parse_diff; language is None or the override
parse_diff(diff, language) ==
    LET files_changed == new_paths(diff)
        total_additions == Len(SelectSeq(diff, is_addition))
        total_deletions == Len(SelectSeq(diff, is_deletion))
        detected_language == IF language # None THEN language[1]
                             ELSE detect_primary_language(files_changed)
    IN  CodeArtifact(diff, files_changed, detected_language,
                     DiffStats(total_additions, total_deletions,
                               Len(files_changed)))

\* "\n".join(lines): the text whose lines they are, "" for no line
join(lines) == IF lines = <<>> THEN EmptyText ELSE lines

\* the added lines with their "+" left on
extract_added_content_unstripped(diff) == join(SelectSeq(diff, is_addition))

extract_added_content(diff) ==
    LET added == SelectSeq(diff, is_addition)
    IN  join([i \in 1..Len(added) |-> DiffLine(Tail(added[i].s))])

\* diff.strip() is empty: every line is empty or blanks
is_blank_text(diff) ==
    \A i \in 1..Len(diff) :
        diff[i].k = "txt" /\ \A j \in 1..Len(diff[i].s) : diff[i].s[j] = " "

----------------------------------------------------------------------------
(* Inputs: the outputs a tool of each family can write *)

ExitCodes == {0, 1}

Families == {"tests", "lint", "typecheck"}

JestReport(success, total, failed, pending, suites) ==
    JDict([success |-> success, numTotalTests |-> total,
           numFailedTests |-> failed, numPendingTests |-> pending,
           testResults |-> suites])

Suite(start, end) == [startTime |-> start, endTime |-> end]

\* the document pytest --json-report writes
PytestJsonReport(passed, failed, skipped, error, exitcode) ==
    JDict([created |-> 1, exitcode |-> exitcode, duration |-> 1,
           summary |-> [passed |-> passed, failed |-> failed,
                        skipped |-> skipped, error |-> error]])

GoEvent(action) == JDict([Action |-> action, Package |-> "pkg"])
GoEventElapsed(action, secs) ==
    JDict([Action |-> action, Package |-> "pkg", Elapsed |-> secs])

RuffIssue(code) ==
    JDict([filename |-> "a.py", location |-> [row |-> 1, column |-> 1],
           code |-> code, message |-> "m"])

\* a ruff report with nE E-coded issues followed by nW W-coded ones
RuffReport(nE, nW) ==
    JList([i \in 1..(nE + nW) |->
             IF i <= nE THEN RuffIssue(JStr(<<"E", "5", "0", "1">>))
             ELSE RuffIssue(JStr(<<"W", "2", "9", "1">>))])

EslintMessage(severity) ==
    [ruleId |-> "r", severity |-> severity, line |-> 1, column |-> 1,
     message |-> "m"]

\* an eslint report of one file with nE errors followed by nW warnings
EslintReport(nE, nW) ==
    JList(<<JDict([filePath |-> "a.js",
                   messages |-> [i \in 1..(nE + nW) |->
                                   IF i <= nE THEN EslintMessage(2)
                                   ELSE EslintMessage(1)]])>>)

GolangciReport(n) ==
    JDict([Issues |-> JList([i \in 1..n |->
                               [FromLinter |-> "govet", Text |-> "m",
                                Pos |-> [Filename |-> "a.go", Line |-> i,
                                         Column |-> 1]]])])

ClippyMessage(level) ==
    JDict([reason |-> "compiler-message",
           message |-> [level |-> level, message |-> "m",
                        spans |-> <<[file_name |-> "a.rs", line_start |-> 1]>>,
                        code |-> [code |-> "c"]]])

\* how many consecutive copies of a line an output may hold
Reps == {1, Limit, MaxIssues}

Once(lines) == {[line |-> l, n |-> 1] : l \in lines}
Repeated(lines) == {[line |-> l, n |-> n] : l \in lines, n \in Reps}

ProseLines ==
    {Blank, Txt(0, 0, 0, 0), Txt(1, 0, 0, 0), Txt(0, 1, 0, 0),
     Txt(2, 0, 0, 0), Txt(0, 0, 1, 0), Txt(0, 0, 0, 1)}

TestLines ==
    {Blank, Txt(0, 0, 0, 0),
     PySum(2, FALSE, 0, FALSE, 0, FALSE, 0, TRUE, 1),
     PySum(1, TRUE, 1, FALSE, 0, FALSE, 0, FALSE, 0),
     PySum(1, FALSE, 0, TRUE, 1, FALSE, 0, FALSE, 0),
     PySum(1, FALSE, 0, FALSE, 0, TRUE, 1, TRUE, 2),
     CargoLine("ok", 1, 0, 0), CargoLine("ok", 1, 0, 1),
     CargoLine("FAILED", 1, 1, 0),
     JsonLine(JestReport(TRUE, 2, 0, 0, <<Suite(10, 15)>>)),
     JsonLine(JestReport(FALSE, 2, 1, 0, <<Suite(10, 15), Suite(20, 22)>>)),
     JsonLine(JestReport(FALSE, 0, 0, 0, <<Suite(10, 11)>>)),
     JsonLine(JestReport(TRUE, 2, 0, 1, <<>>)),
     JsonLine(JDict([numTotalTests |-> 1])),
     JsonLine(PytestJsonReport(2, 0, 1, 0, 0)),
     JsonLine(PytestJsonReport(1, 0, 0, 2, 1)),
     JsonLine(GoEvent("pass")), JsonLine(GoEvent("fail")),
     JsonLine(GoEvent("skip")), JsonLine(GoEvent("output")),
     JsonLine(GoEventElapsed("pass", 2)),
     JsonLine(JInt), Junk(TRUE, FALSE), Junk(TRUE, TRUE)}

LintItems ==
    Once(ProseLines \cup
         {JsonLine(RuffReport(0, 0)), JsonLine(RuffReport(1, 0)),
          JsonLine(RuffReport(0, 1)), JsonLine(RuffReport(MaxIssues, 1)),
          JsonLine(JList(<<RuffIssue(JStr(<<"F", "4">>))>>)),
          JsonLine(JList(<<RuffIssue(JNull)>>)),
          JsonLine(EslintReport(1, 0)), JsonLine(EslintReport(0, 1)),
          JsonLine(EslintReport(MaxIssues, 1)),
          JsonLine(GolangciReport(0)), JsonLine(GolangciReport(1)),
          JsonLine(GolangciReport(MaxIssues)),
          JsonLine(JDict([Issues |-> JNull])),
          JsonLine(ClippyMessage("warning")),
          JsonLine(JDict([reason |-> "build-finished"])),
          JsonLine(JInt), Junk(TRUE, FALSE)})
    \cup Repeated({JsonLine(ClippyMessage("error"))})

TypecheckItems ==
    Once({Blank, Txt(0, 0, 0, 0), Txt(1, 0, 0, 0), Txt(0, 1, 0, 0)})
    \cup Repeated({Diag("mypy"), Diag("tsc"), Diag("govet")})

Items(f) ==
    CASE f = "tests" -> Once(TestLines)
      [] f = "lint" -> LintItems
      [] f = "typecheck" -> TypecheckItems

\* the text of a sequence of items
Expand(items) ==
    Flatten([i \in 1..Len(items) |-> [j \in 1..items[i].n |-> items[i].line]])

Texts(f, maxLen) ==
    {Expand(items) : items \in UNION {[1..n -> Items(f)] : n \in 0..maxLen}}

TestFrameworks ==
    {Str("pytest"), Str("jest"), Str("npm"), Str("go test"),
     Str("cargo test"), Str("custom")}

LintTools ==
    {Str("ruff"), Str("eslint"), Str("golangci-lint"), Str("clippy"),
     Str("flake8")}

TypecheckTools == {Str("mypy"), Str("tsc"), Str("go vet"), Str("pyright")}

----------------------------------------------------------------------------
(* The parsers applied to a captured output *)

NoOp == [name |-> "none"]

SampleTask == [description |-> "Fix bug", tool |-> None, conversation_id |-> None]

SampleArtifact ==
    [diff |-> "diff", files_changed |-> <<"a.py">>, language |-> "python",
     diff_stats |-> DiffStats(1, 0, 1)]

NoTrace == [task |-> "none"]
NoPayload == [kind |-> "none"]
NoConfig == [api_key |-> None, project_id |-> None]
NoHttp == [kind |-> "none"]
NoBatch == [state |-> "none"]

\* no client is in use
ClientIdle ==
    /\ config = NoConfig
    /\ http = NoHttp

\* submit_batch is not running
BatchIdle ==
    /\ traces = <<>>
    /\ concurrency = 0
    /\ sem = 0
    /\ tasks = <<>>
    /\ order = <<>>
    /\ batch = NoBatch

NoFlags == [given |-> FALSE]
NoOptions == [built |-> FALSE]
NoWorld == [launched |-> FALSE]

\* no collector is in use
CollectIdle ==
    /\ flags = NoFlags
    /\ options = NoOptions
    /\ world = NoWorld
    /\ invoked = {}
    /\ submits = 0

\* no diff is being analyzed
DiffIdle ==
    /\ patch = <<>>
    /\ paths = <<>>

\* no tool output is being normalized
NormIdle ==
    /\ family = "none"
    /\ out = <<>>
    /\ rc = 0

InitParse ==
    /\ family \in Families
    /\ out \in Texts(family, MaxLines)
    /\ rc \in ExitCodes
    /\ op = NoOp
    /\ res = NoResult
    /\ trace = NoTrace
    /\ payload = NoPayload
    /\ pc = "input"
    /\ ClientIdle
    /\ BatchIdle
    /\ CollectIdle
    /\ DiffIdle

\* parser(out, rc, tool) is called
Apply(fam, name, tool, result) ==
    /\ pc = "input"
    /\ family = fam
    /\ op' = [name |-> name, tool |-> tool, oc |-> "n/a"]
    /\ res' = result
    /\ pc' = "done"
    /\ UNCHANGED <<family, out, rc, trace, payload, config, http, batchVars, collectVars, diffVars>>

ParsePytest ==
    Apply("tests", "parse_pytest", Str("pytest"), parse_pytest(out, rc, Str("pytest")))
ParseJest ==
    Apply("tests", "parse_jest", Str("jest"), parse_jest(out, rc, Str("jest")))
ParseGoTest ==
    Apply("tests", "parse_go_test", Str("go test"), parse_go_test(out, rc, Str("go test")))
ParseCargoTest ==
    Apply("tests", "parse_cargo_test", Str("cargo test"),
          parse_cargo_test(out, rc, Str("cargo test")))
ParseGenericTest ==
    Apply("tests", "parse_generic_test_output", Str("custom"),
          parse_generic_test_output(out, rc, Str("custom")))

JestIntegrationRun ==
    Apply("tests", "JestIntegration.run", Str("jest"),
          JestIntegration_results(out, rc))
PytestIntegrationRun ==
    Apply("tests", "PytestIntegration.run", Str("pytest"),
          PytestIntegration_results(out, rc))

ParseRuff ==
    Apply("lint", "parse_ruff", Str("ruff"), parse_ruff(out, rc, Str("ruff")))
ParseEslint ==
    Apply("lint", "parse_eslint", Str("eslint"), parse_eslint(out, rc, Str("eslint")))
ParseGolangci ==
    Apply("lint", "parse_golangci", Str("golangci-lint"),
          parse_golangci(out, rc, Str("golangci-lint")))
ParseClippy ==
    Apply("lint", "parse_clippy", Str("clippy"), parse_clippy(out, rc, Str("clippy")))
ParseGenericLint ==
    Apply("lint", "parse_generic_lint_output", Str("flake8"),
          parse_generic_lint_output(out, rc, Str("flake8")))

ParseMypy ==
    Apply("typecheck", "parse_mypy", Str("mypy"), parse_mypy(out, rc, Str("mypy")))
ParseTsc ==
    Apply("typecheck", "parse_tsc", Str("tsc"), parse_tsc(out, rc, Str("tsc")))
ParseGoVet ==
    Apply("typecheck", "parse_go_vet", Str("go vet"), parse_go_vet(out, rc, Str("go vet")))
ParseGenericTypecheck ==
    Apply("typecheck", "parse_generic_typecheck_output", Str("pyright"),
          parse_generic_typecheck_output(out, rc, Str("pyright")))

\* results built directly with the dataclass constructors, which put no
\* bound on the errors list
Handmade(fam) ==
    LET errors == [i \in 1..MaxIssues |-> [message |-> "m", line |-> i]]
    IN  CASE fam = "lint" -> {LintResults(FALSE, MaxIssues, 0, errors, Str("custom"))}
          [] fam = "typecheck" -> {TypeCheckResults(FALSE, MaxIssues, errors, Str("custom"))}
          [] OTHER -> {}

\* a result (the parser's, or a handmade one) is put in the CodeVerification
\* of a CodeTrace, which is serialized
ToCertTrace ==
    /\ pc = "done"
    /\ res.exc = "none"
    /\ \E result \in {res.val} \cup Handmade(family) :
       LET r == Some(result)
           v == CASE family = "tests" -> CodeVerification(TRUE, r, None, None)
                  [] family = "lint" -> CodeVerification(TRUE, None, r, None)
                  [] family = "typecheck" -> CodeVerification(TRUE, None, None, r)
       IN  /\ trace' = CodeTrace(SampleTask, SampleArtifact, v, None, None)
           /\ payload' = to_cert_trace(trace')
    /\ pc' = "traced"
    /\ UNCHANGED <<family, out, rc, op, res, config, http, batchVars, collectVars, diffVars>>

NextParse ==
    \/ ParsePytest \/ ParseJest \/ ParseGoTest \/ ParseCargoTest
    \/ ParseGenericTest \/ JestIntegrationRun \/ PytestIntegrationRun
    \/ ParseRuff \/ ParseEslint \/ ParseGolangci \/ ParseClippy
    \/ ParseGenericLint
    \/ ParseMypy \/ ParseTsc \/ ParseGoVet \/ ParseGenericTypecheck
    \/ ToCertTrace

SpecParse == InitParse /\ [][NextParse]_vars

----------------------------------------------------------------------------
(* The runners: the tool is launched and its outcome handled *)

Stderrs == {<<>>, <<Txt(1, 0, 0, 0)>>}

InitRun ==
    /\ family \in Families
    /\ out \in Texts(family, MaxRunLines)
    /\ rc \in ExitCodes
    /\ op = NoOp
    /\ res = NoResult
    /\ trace = NoTrace
    /\ payload = NoPayload
    /\ pc = "input"
    /\ ClientIdle
    /\ BatchIdle
    /\ CollectIdle
    /\ DiffIdle

Ran(fam, name, tool, oc, stderr, result) ==
    /\ pc = "input"
    /\ family = fam
    /\ op' = [name |-> name, tool |-> tool, oc |-> oc, stderr |-> stderr]
    /\ res' = result
    /\ pc' = "done"
    /\ UNCHANGED <<family, out, rc, trace, payload, config, http, batchVars, collectVars, diffVars>>

RunTests ==
    \E fw \in TestFrameworks, oc \in Outcomes, err \in Stderrs :
        Ran("tests", "run_tests", Some(fw), oc, err,
            run_tests(fw, oc, out, err, rc))

\* no subprocess is started when no tool is selected
Launches(tool) == IF tool = None THEN {"n/a"} ELSE Outcomes

RunLint ==
    \E tool \in {None} \cup {Some(t) : t \in LintTools}, err \in Stderrs :
        \E oc \in Launches(tool) :
            Ran("lint", "run_lint", tool, oc, err,
                run_lint(tool, oc, out, err, rc))

RunTypecheck ==
    \E tool \in {None} \cup {Some(t) : t \in TypecheckTools}, err \in Stderrs :
        \E oc \in Launches(tool) :
            Ran("typecheck", "run_typecheck", tool, oc, err,
                run_typecheck(tool, oc, out, err, rc))

CollectorRunLint ==
    \E cmd \in {None} \cup {Some(t) : t \in LintTools}, err \in Stderrs :
        \E oc \in Launches(cmd) :
            Ran("lint", "collector_run_lint", cmd, oc, err,
                collector_run_lint(cmd, oc, out, rc))

CollectorRunTypecheck ==
    \E cmd \in {None} \cup {Some(t) : t \in TypecheckTools}, err \in Stderrs :
        \E oc \in Launches(cmd) :
            Ran("typecheck", "collector_run_typecheck", cmd, oc, err,
                collector_run_typecheck(cmd, oc, out, rc))

NextRun ==
    \/ RunTests \/ RunLint \/ RunTypecheck
    \/ CollectorRunLint \/ CollectorRunTypecheck

SpecRun == InitRun /\ [][NextRun]_vars

----------------------------------------------------------------------------
(* client.py: one submission *)

CertCodeConfig(api_key, project_id) ==
    [api_key |-> api_key, project_id |-> project_id]

SubmitResult(success, trace_id, error, evaluation) ==
    [success |-> success, trace_id |-> trace_id, error |-> error,
     evaluation |-> evaluation]

\* str(CertAPIError(status_code, message)):
\* "CERT API Error ({status_code}): {message}"
CertAPIError(status_code, message) ==
    [prefix |-> "CERT API Error", status_code |-> status_code,
     message |-> message]

\* f"Request failed: {e}" for a httpx.RequestError e
RequestFailed(e) == [prefix |-> "Request failed", message |-> e]

\* what the POST does: httpx raises a RequestError, or a response arrives
RequestError(e) == [kind |-> "error", e |-> e]
Response(status_code, body) ==
    [kind |-> "response", status_code |-> status_code, body |-> body]

\* response bodies: no bytes, bytes that are no JSON, a JSON document
EmptyBody == [content |-> "empty"]
HtmlBody == [content |-> "html"]
JsonBody(v) == [content |-> "json", v |-> v]

\* response.json()
response_json(response) ==
    IF response.body.content = "json" THEN Return(response.body.v)
    ELSE Raise("JSONDecodeError")

\* d.get(key), an Optional
PyGet(d, key) == IF key \in DOMAIN d THEN Some(d[key]) ELSE None

\* a or b on Optional[str]
PyOr(a, b) == IF Truthy(a) THEN a ELSE b

\* submit, the first statement: the config's project id fills in a missing one
with_project_id(trace_, config_) ==
    IF ~Truthy(trace_.project_id) /\ Truthy(config_.project_id)
    THEN [trace_ EXCEPT !.project_id = config_.project_id]
    ELSE trace_

\* submit, the branch for status_code >= 400
error_response(response) ==
    LET parsed == IF response.body.content # "empty"
                  THEN response_json(response)
                  ELSE Return(JDict(<<>>))
    IN  IF parsed.exc # "none" THEN parsed
        ELSE IF parsed.val.t # "dict" THEN Raise("AttributeError")
        ELSE Return(SubmitResult(FALSE, None,
                 Some(CertAPIError(response.status_code,
                                   Get(parsed.val.d, "error", "Unknown error"))),
                 None))

\* submit, the statements after the status checks
success_response(response) ==
    LET parsed == response_json(response)
    IN  IF parsed.exc # "none" THEN parsed
        ELSE IF parsed.val.t # "dict" THEN Raise("AttributeError")
        ELSE Return(SubmitResult(TRUE,
                 PyOr(PyGet(parsed.val.d, "id"), PyGet(parsed.val.d, "trace_id")),
                 None,
                 PyGet(parsed.val.d, "evaluation")))

\* CertClient.submit, from the POST on
CertClient_submit(posted) ==
    IF posted.kind = "error"
    THEN Return(SubmitResult(FALSE, None, Some(RequestFailed(posted.e)), None))
    ELSE IF posted.status_code = 401
    THEN Return(SubmitResult(FALSE, None,
                Some(CertAPIError(401, "Invalid API key")), None))
    ELSE IF posted.status_code = 403
    THEN Return(SubmitResult(FALSE, None,
                Some(CertAPIError(403, "Access denied to project")), None))
    ELSE IF posted.status_code >= 400 THEN error_response(posted)
    ELSE success_response(posted)

\* CertAsyncClient.submit, from the POST on
CertAsyncClient_submit(posted) ==
    IF posted.kind = "error"
    THEN Return(SubmitResult(FALSE, None, Some(RequestFailed(posted.e)), None))
    ELSE IF posted.status_code >= 400 THEN error_response(posted)
    ELSE success_response(posted)

----------------------------------------------------------------------------
(* One trace is submitted through either client *)

StatusCodes == {200, 204, 401, 403, 422, 502}

Bodies ==
    {EmptyBody, HtmlBody,
     JsonBody(JDict(<<>>)),
     JsonBody(JDict([id |-> "t-1", evaluation |-> "pass"])),
     JsonBody(JDict([trace_id |-> "t-2"])),
     JsonBody(JDict([id |-> "", trace_id |-> "t-3"])),
     JsonBody(JDict([error |-> "Quota exceeded"])),
     JsonBody(JList(<<>>))}

Posts ==
    {RequestError("ConnectError")}
        \cup {Response(s, b) : s \in StatusCodes, b \in Bodies}

ProjectIds == {None, Some(""), Some("own")}

Unverified == CodeVerification(TRUE, None, None, None)

\* a check that lets an empty key through
validate_config_not_none(cfg) == cfg.api_key # None

\* _validate_config of both clients: TRUE when it does not raise
validate_config(cfg) == Truthy(cfg.api_key)

ApiKeys == {None, Some(""), Some("key")}

InitSubmit ==
    /\ NormIdle
    /\ op = NoOp
    /\ res = NoResult
    /\ trace \in {CodeTrace(SampleTask, SampleArtifact, Unverified, None, p) :
                    p \in ProjectIds}
    /\ payload = NoPayload
    /\ pc = "new"
    /\ config \in {CertCodeConfig(k, p) : k \in ApiKeys, p \in {None, Some("cfg")}}
    /\ http \in Posts
    /\ BatchIdle
    /\ CollectIdle
    /\ DiffIdle

\* __init__ of a client class: the configuration is validated, then the
\* httpx client is created
NewClient(cls) ==
    /\ pc = "new"
    /\ op' = [name |-> "__init__", cls |-> cls]
    /\ IF validate_config(config)
       THEN pc' = "input" /\ res' = NoResult
       ELSE pc' = "failed" /\ res' = Raise("ValueError")
    /\ UNCHANGED <<family, out, rc, trace, payload, config, http, batchVars,
                   collectVars, diffVars>>

NewSyncClient == NewClient("CertClient")

NewAsyncClient == NewClient("CertAsyncClient")

\* submit of a client of class cls: one POST is sent
Submitted(cls, name, result) ==
    /\ pc = "input"
    /\ op.cls = cls
    /\ trace' = with_project_id(trace, config)
    /\ payload' = to_cert_trace(trace')
    /\ op' = [name |-> name, cls |-> cls]
    /\ res' = result
    /\ pc' = "done"
    /\ submits' = submits + 1
    /\ UNCHANGED <<family, out, rc, config, http, batchVars, flags, options,
                   world, invoked, diffVars>>

SyncSubmit ==
    Submitted("CertClient", "CertClient.submit", CertClient_submit(http))

AsyncSubmit ==
    Submitted("CertAsyncClient", "CertAsyncClient.submit",
              CertAsyncClient_submit(http))

NextSubmit == NewSyncClient \/ NewAsyncClient \/ SyncSubmit \/ AsyncSubmit

SpecSubmit == InitSubmit /\ [][NextSubmit]_vars

----------------------------------------------------------------------------
(* client.py: CertAsyncClient.submit_batch *)

\* a semaphore that lets one submission too many in
Semaphore_one_too_many(value) == value + 1

\* asyncio.Semaphore(concurrency): its initial value
Semaphore(value) == value

\* the ids the server gives to the traces of a batch
ServerIds == <<"t-1", "t-2", "t-3", "t-4", "t-5">>

\* what the POST of the i-th trace can do
BatchPosts(i) ==
    {RequestError("ConnectError"),
     Response(200, JsonBody(JDict([id |-> ServerIds[i]]))),
     Response(422, JsonBody(JDict([error |-> "Invalid trace"]))),
     Response(502, HtmlBody)}

\* asyncio.gather without return_exceptions: the children's results in the
\* order the children were passed
gather(children) == [i \in 1..Len(children) |-> children[i].res.val]

InFlight == {i \in 1..Len(tasks) : tasks[i].pc = "inflight"}

Waiting == {i \in 1..Len(tasks) : tasks[i].pc = "start"}

InitBatch ==
    /\ NormIdle
    /\ op = NoOp
    /\ res = NoResult
    /\ trace = NoTrace
    /\ payload = NoPayload
    /\ pc = "input"
    /\ config = CertCodeConfig(Some("key"), Some("cfg"))
    /\ http = NoHttp
    /\ \E n \in 0..MaxTraces :
        /\ traces = [i \in 1..n |->
                        CodeTrace(SampleTask, SampleArtifact, Unverified, None,
                                  IF i % 2 = 0 THEN Some("own") ELSE None)]
        /\ tasks = [i \in 1..n |-> [pc |-> "start", http |-> NoHttp,
                                     res |-> NoResult]]
    /\ concurrency \in 0..MaxConcurrency
    /\ sem = Semaphore(concurrency)
    /\ order = <<>>
    /\ batch = [state |-> "gathering"]
    /\ CollectIdle
    /\ DiffIdle

\* async with semaphore: the task enters when the value is positive, and
\* submit runs up to its await of the POST
Acquire(i) ==
    /\ tasks[i].pc = "start"
    /\ sem > 0
    /\ sem' = sem - 1
    /\ traces' = [traces EXCEPT ![i] = with_project_id(@, config)]
    /\ tasks' = [tasks EXCEPT ![i].pc = "inflight"]
    /\ UNCHANGED <<normVars, config, http, concurrency, order, batch,
                   collectVars, diffVars>>

\* the POST of task i finishes: submit returns or raises, the semaphore is
\* released, and a raised exception ends the gather
Respond(i) ==
    /\ tasks[i].pc = "inflight"
    /\ \E posted \in BatchPosts(i) :
        LET result == CertAsyncClient_submit(posted)
        IN  /\ tasks' = [tasks EXCEPT ![i] =
                            [pc |-> IF result.exc = "none" THEN "done"
                                    ELSE "raised",
                             http |-> posted, res |-> result]]
            /\ batch' = IF result.exc # "none" /\ batch.state = "gathering"
                        THEN [state |-> "raised", exc |-> result.exc]
                        ELSE batch
    /\ sem' = sem + 1
    /\ order' = Append(order, i)
    /\ UNCHANGED <<normVars, config, http, traces, concurrency, collectVars, diffVars>>

\* every task has returned: the gather returns the list of results
Gathered ==
    /\ batch.state = "gathering"
    /\ \A i \in 1..Len(tasks) : tasks[i].pc = "done"
    /\ batch' = [state |-> "returned", results |-> gather(tasks)]
    /\ UNCHANGED <<normVars, config, http, traces, concurrency, sem, tasks,
                   order, collectVars, diffVars>>

NextBatch ==
    \/ \E i \in 1..Len(tasks) : Acquire(i)
    \/ \E i \in 1..Len(tasks) : Respond(i)
    \/ Gathered

SpecBatch == InitBatch /\ [][NextBatch]_vars

\* the event loop runs a task that can run, and the POST of a task in
\* flight ends (httpx gives up after its timeout)
SpecBatchFair == SpecBatch /\ WF_vars(NextBatch)

----------------------------------------------------------------------------
(* cli.py submit and collector.py *)

CollectorOptions(run_tests_, run_lint_, run_typecheck_) ==
    [run_tests |-> run_tests_, run_lint |-> run_lint_,
     run_typecheck |-> run_typecheck_, context_files |-> None,
     language |-> None]

\* the auto_run_* fields of a CertCodeConfig
WithDefaults(cfg, tests, lint, typecheck) ==
    cfg @@ [auto_run_tests |-> tests, auto_run_lint |-> lint,
            auto_run_typecheck |-> typecheck]

\* cli submit, "Build options": x if x is not None else cfg.auto_x
cli_options(flags_, cfg) ==
    CollectorOptions(
        IF flags_.run_tests # None THEN flags_.run_tests[1]
        ELSE cfg.auto_run_tests,
        IF flags_.run_lint # None THEN flags_.run_lint[1]
        ELSE cfg.auto_run_lint,
        IF flags_.run_typecheck # None THEN flags_.run_typecheck[1]
        ELSE cfg.auto_run_typecheck)

\* _build_verification: should_run_tests, should_run_lint,
\* should_run_typecheck
should_run(options_, cfg) ==
    [tests |-> options_.run_tests \/ cfg.auto_run_tests,
     lint |-> options_.run_lint \/ cfg.auto_run_lint,
     typecheck |-> options_.run_typecheck \/ cfg.auto_run_typecheck]

\* DEFAULT_TEST_RUNNERS, and _detect_test_command in a directory without
\* project files
default_framework(language) ==
    CASE language = "python" -> Str("pytest")
      [] language \in {"javascript", "typescript"} -> Str("jest")
      [] language = "go" -> Str("go test")
      [] language = "rust" -> Str("cargo test")
      [] OTHER -> Str("pytest")

\* _run_lint, the command for the language
default_lint_command(language) ==
    CASE language = "python" -> Some(Str("ruff"))
      [] language \in {"javascript", "typescript"} -> Some(Str("eslint"))
      [] language = "go" -> Some(Str("golangci-lint"))
      [] language = "rust" -> Some(Str("cargo"))
      [] OTHER -> None

\* _run_typecheck, the command for the language
default_typecheck_command(language) ==
    CASE language = "python" -> Some(Str("mypy"))
      [] language = "typescript" -> Some(Str("tsc"))
      [] OTHER -> None

_check_parseable(artifact) == TRUE

\* a requested signal: Some(result), or the exception of its runner
Requested(ran) == IF ran.exc = "none" THEN Return(Some(ran.val)) ELSE ran

\* _build_verification; runs gives, for each family, what its tool does
\* when launched. The result, and the normalizers that were invoked.
build_verification(artifact, options_, cfg, runs) ==
    LET should == should_run(options_, cfg)
        verification(tests, lint, typecheck) ==
            IF tests.exc # "none"
            THEN [result |-> tests, invoked |-> {"tests"}]
            ELSE IF lint.exc # "none"
            THEN [result |-> lint,
                  invoked |-> {f \in {"tests", "lint"} : should[f]}]
            ELSE [result |-> IF typecheck.exc # "none" THEN typecheck
                             ELSE Return(CodeVerification(
                                      _check_parseable(artifact), tests.val,
                                      lint.val, typecheck.val)),
                  invoked |-> {f \in Families : should[f]}]
    IN  verification(
            IF should.tests
            THEN Requested(run_tests(default_framework(artifact.language),
                                     runs.tests.oc, <<>>, <<>>, runs.tests.rc))
            ELSE Return(None),
            IF should.lint
            THEN Requested(collector_run_lint(
                               default_lint_command(artifact.language),
                               runs.lint.oc, <<>>, runs.lint.rc))
            ELSE Return(None),
            IF should.typecheck
            THEN Requested(collector_run_typecheck(
                               default_typecheck_command(artifact.language),
                               runs.typecheck.oc, <<>>, runs.typecheck.rc))
            ELSE Return(None))

CodeTask(description, tool) ==
    [description |-> description, tool |-> tool, conversation_id |-> None]

\* CodeCollector.from_diff: the result, the trace given to client.submit (if
\* it got that far) and the normalizers invoked
from_diff(task, diff, options_, tool, cfg, runs, posted) ==
    LET context == None
        submit(artifact, built) ==
            IF built.result.exc # "none"
            THEN [result |-> built.result, invoked |-> built.invoked,
                  submitted |-> <<>>]
            ELSE [result |-> CertClient_submit(posted),
                  invoked |-> built.invoked,
                  submitted |-> <<with_project_id(
                                      CodeTrace(CodeTask(task, tool), artifact,
                                                built.result.val, context,
                                                cfg.project_id),
                                      cfg)>>]
        verify(artifact) ==
            submit(artifact, build_verification(artifact, options_, cfg, runs))
    IN  verify(parse_diff(diff, options_.language))

\* what `git show` / `git diff` does: it prints a diff, exits non-zero, or
\* cannot be started
GitPrints(diff) == [oc |-> "completed", stdout |-> diff]
GitFails == [oc |-> "CalledProcessError"]
GitMissing == [oc |-> "FileNotFoundError"]

\* CodeCollector.from_commit
from_commit(task, git, options_, tool, cfg, runs, posted) ==
    CASE git.oc = "CalledProcessError" ->
           [result |-> Return(SubmitResult(FALSE, None,
                          Some([prefix |-> "Git error",
                                message |-> "CalledProcessError"]), None)),
            invoked |-> {}, submitted |-> <<>>]
      [] git.oc = "FileNotFoundError" ->
           [result |-> Raise("FileNotFoundError"), invoked |-> {},
            submitted |-> <<>>]
      [] git.oc = "completed" ->
           IF is_blank_text(git.stdout)
           THEN [result |-> Return(SubmitResult(FALSE, None,
                               Some([prefix |-> "No changes in commit"]), None)),
                 invoked |-> {}, submitted |-> <<>>]
           ELSE from_diff(task, git.stdout, options_, tool, cfg, runs, posted)

\* a context file on disk: missing, unreadable (read_text raises) or
\* readable with a content of size characters
ContextFile(state, size) == [state |-> state, size |-> size]

RECURSIVE load_loop(_, _, _, _, _)
\* _load_context, the for loop from files[i] on; a part records the file,
\* how many characters of its content were kept and whether it was cut
load_loop(files, i, context_parts, total_size, max_size) ==
    IF i > Len(files) THEN context_parts
    ELSE IF files[i].state = "missing"
    THEN load_loop(files, i + 1, context_parts, total_size, max_size)
    ELSE IF files[i].state = "unreadable"
    THEN load_loop(files, i + 1, context_parts, total_size, max_size)
    ELSE IF total_size + files[i].size > max_size
    THEN LET remaining == max_size - total_size
         IN  IF remaining > TruncateThreshold
             THEN load_loop(files, i + 1,
                            Append(context_parts,
                                   [file |-> i, kept |-> remaining,
                                    truncated |-> TRUE]),
                            total_size + remaining + MarkerLen, max_size)
             ELSE context_parts                                  \* break
    ELSE load_loop(files, i + 1,
                   Append(context_parts,
                          [file |-> i, kept |-> files[i].size,
                           truncated |-> FALSE]),
                   total_size + files[i].size, max_size)

\* context_files or self.config.context_files
files_to_load(context_files, cfg) ==
    IF context_files # None /\ context_files[1] # <<>> THEN context_files[1]
    ELSE cfg.context_files

\* CodeCollector._load_context: None, or the parts that are joined
_load_context(context_files, cfg) ==
    LET files == files_to_load(context_files, cfg)
        joined(context_parts) ==
            IF context_parts # <<>> THEN Some(context_parts) ELSE None
    IN  IF files = <<>> THEN None
        ELSE joined(load_loop(files, 1, <<>>, 0, cfg.context_max_size))

----------------------------------------------------------------------------
(* The CLI builds the options and the collector is called *)

Tri == {None, Some(TRUE), Some(FALSE)}

CliFlags ==
    [given : {TRUE}, run_tests : Tri, run_lint : Tri, run_typecheck : Tri]

PyPath == <<"main", "py">>

\* the diff of one Python file with one added line, and a bare hunk without
\* any header
PyDiff ==
    <<DiffHeader(PyPath, PyPath, FALSE),
      DiffLine(<<"-", "-", "-", " a/main.py">>),
      DiffLine(<<"+", "+", "+", " b/main.py">>),
      DiffLine(<<"+", "x">>)>>
BareDiff == <<DiffLine(<<"+", "x">>)>>
BlankDiff == <<DiffLine(<<" ">>), DiffLine(<<>>)>>

CollectDiffs == {PyDiff, BareDiff}

Completed(returncode) == [oc |-> "completed", rc |-> returncode]
Failed(oc) == [oc |-> oc, rc |-> 0]
NotRun == [oc |-> "n/a", rc |-> 0]

ToolRuns ==
    {Completed(c) : c \in ExitCodes}
        \cup {Failed(oc) : oc \in Outcomes \ {"completed"}}

\* what each requested tool does when it is launched
Runs(should) ==
    [tests : IF should.tests THEN ToolRuns ELSE {NotRun},
     lint : IF should.lint THEN ToolRuns ELSE {NotRun},
     typecheck : IF should.typecheck THEN ToolRuns ELSE {NotRun}]

NoRuns == [tests |-> NotRun, lint |-> NotRun, typecheck |-> NotRun]

GitOutcomes ==
    {GitPrints(d) : d \in {PyDiff, EmptyText, BlankDiff}}
        \cup {GitFails, GitMissing}

CollectPosts ==
    {Response(200, JsonBody(JDict([id |-> "t-1"]))),
     Response(422, JsonBody(JDict([error |-> "Invalid trace"])))}

InitCollect ==
    /\ NormIdle
    /\ op = NoOp
    /\ res = NoResult
    /\ trace = NoTrace
    /\ payload = NoPayload
    /\ pc = "cli"
    /\ config \in {WithDefaults(CertCodeConfig(Some("key"), Some("cfg")),
                                t, l, c) : t, l, c \in BOOLEAN}
    /\ http = NoHttp
    /\ BatchIdle
    /\ flags \in CliFlags
    /\ options = NoOptions
    /\ world = NoWorld
    /\ invoked = {}
    /\ submits = 0
    /\ DiffIdle

\* cli submit up to the call of the collector
CliOptions ==
    /\ pc = "cli"
    /\ options' = cli_options(flags, config)
    /\ pc' = "options"
    /\ UNCHANGED <<family, out, rc, op, res, trace, payload, config, http,
                   batchVars, flags, world, invoked, submits, diffVars>>

\* the collector returned while the world did w
Collected(name, w, posted, returned) ==
    \E r \in {returned} :
        /\ op' = [name |-> name]
        /\ world' = w
        /\ res' = r.result
        /\ invoked' = r.invoked
        /\ submits' = Len(r.submitted)
        /\ trace' = IF r.submitted = <<>> THEN NoTrace ELSE r.submitted[1]
        /\ payload' = IF r.submitted = <<>> THEN NoPayload
                      ELSE to_cert_trace(r.submitted[1])
        /\ http' = IF r.submitted = <<>> THEN NoHttp ELSE posted
        /\ pc' = "done"
        /\ UNCHANGED <<family, out, rc, config, batchVars, flags, options,
                       diffVars>>

FromDiff ==
    /\ pc = "options"
    /\ \E diff \in CollectDiffs, runs \in Runs(should_run(options, config)),
          posted \in CollectPosts :
        Collected("from_diff",
                  [launched |-> TRUE, git |-> NotRun, diff |-> diff,
                   runs |-> runs],
                  posted,
                  from_diff("Fix bug", diff, options, None, config, runs,
                            posted))

FromCommit ==
    /\ pc = "options"
    /\ \E git \in GitOutcomes :
        \E runs \in IF git.oc = "completed" /\ ~is_blank_text(git.stdout)
                    THEN Runs(should_run(options, config)) ELSE {NoRuns},
           posted \in CollectPosts :
            Collected("from_commit",
                      [launched |-> TRUE, git |-> git, diff |-> <<>>,
                       runs |-> runs],
                      posted,
                      from_commit("Fix bug", git, options, None, config, runs,
                                  posted))

NextCollect == CliOptions \/ FromDiff \/ FromCommit

SpecCollect == InitCollect /\ [][NextCollect]_vars

----------------------------------------------------------------------------
(* The diff analyzer applied to a diff text or a file list *)

MainPy == <<"src/main", "py">>
AppTsx == <<"src/App", "tsx">>
Quoted == <<"caf\\303\\251", "py">>

DiffLines ==
    {DiffHeader(MainPy, MainPy, FALSE),
     DiffHeader(AppTsx, AppTsx, FALSE),
     DiffHeader(MainPy, AppTsx, FALSE),
     DiffHeader(Quoted, Quoted, TRUE),
     DiffLine(<<"-", "-", "-", " a/src/main.py">>),
     DiffLine(<<"+", "+", "+", " b/src/main.py">>),
     DiffLine(<<"+", "x">>),
     DiffLine(<<"+">>),
     DiffLine(<<"+", "+", "x">>),
     DiffLine(<<"-", "x">>),
     DiffLine(<<" ", "x">>),
     DiffLine(<<>>)}

DiffTexts == UNION {[1..n -> DiffLines] : n \in 1..MaxDiffLines}

Paths ==
    {MainPy, AppTsx, <<"style", "css">>, <<"package", "json">>,
     <<"Makefile">>, <<"setup", "PY">>}

FileLists == UNION {[1..n -> Paths] : n \in 0..MaxFiles}

InitDiff ==
    /\ NormIdle
    /\ op = NoOp
    /\ res = NoResult
    /\ trace = NoTrace
    /\ payload = NoPayload
    /\ pc = "input"
    /\ ClientIdle
    /\ BatchIdle
    /\ CollectIdle
    /\ \/ patch \in DiffTexts /\ paths = <<>>
       \/ patch = EmptyText /\ paths \in FileLists

Analyzed(name, result) ==
    /\ pc = "input"
    /\ op' = [name |-> name]
    /\ res' = Return(result)
    /\ pc' = "done"
    /\ UNCHANGED <<family, out, rc, trace, payload, config, http, batchVars,
                   collectVars, diffVars>>

ParseDiff == Analyzed("parse_diff", parse_diff(patch, None))

ExtractAddedContent ==
    Analyzed("extract_added_content", extract_added_content(patch))

DetectPrimaryLanguage ==
    Analyzed("detect_primary_language", detect_primary_language(paths))

NextDiff == ParseDiff \/ ExtractAddedContent \/ DetectPrimaryLanguage

SpecDiff == InitDiff /\ [][NextDiff]_vars

----------------------------------------------------------------------------
(* The collector loads the context files *)

FileSizes == {0, 500, 1500, 10000}

ContextFiles ==
    {ContextFile("missing", 0), ContextFile("unreadable", 0)}
        \cup {ContextFile("readable", n) : n \in FileSizes}

ContextLists == UNION {[1..n -> ContextFiles] : n \in 0..MaxContextFiles}

MaxSizes == {0, 1000, 1001, 2000, 100000}

InitContext ==
    /\ NormIdle
    /\ op = NoOp
    /\ res = NoResult
    /\ trace = NoTrace
    /\ payload = NoPayload
    /\ pc = "options"
    /\ config \in {CertCodeConfig(Some("key"), None)
                      @@ [context_files |-> cf, context_max_size |-> m] :
                    cf \in {<<>>, <<ContextFile("readable", 500)>>},
                    m \in MaxSizes}
    /\ http = NoHttp
    /\ BatchIdle
    /\ flags = NoFlags
    /\ options \in {[CollectorOptions(FALSE, FALSE, FALSE)
                        EXCEPT !.context_files = cf] :
                     cf \in {None} \cup {Some(l) : l \in ContextLists}}
    /\ world = NoWorld
    /\ invoked = {}
    /\ submits = 0
    /\ DiffIdle

\* from_diff, "# Load context"
LoadContext ==
    /\ pc = "options"
    /\ op' = [name |-> "_load_context"]
    /\ res' = Return(_load_context(options.context_files, config))
    /\ pc' = "done"
    /\ UNCHANGED <<family, out, rc, trace, payload, config, http, batchVars,
                   flags, options, world, invoked, submits, diffVars>>

NextContext == LoadContext

SpecContext == InitContext /\ [][NextContext]_vars

----------------------------------------------------------------------------
(* A CodeTrace is built by hand, its verification read and the trace        *)
(* serialized                                                              *)

TestsSignals ==
    {None,
     Some(TestResults(TRUE, 2, 0, 0, 0, <<>>, Str("pytest"))),
     Some(TestResults(FALSE, 2, 1, 0, 0, <<>>, Str("pytest"))),
     Some(TestResults(FALSE, 0, 0, 0, 0, <<Msg("Test command not found")>>,
                      Str("pytest")))}

LintSignals ==
    {None,
     Some(LintResults(TRUE, 0, 0, <<>>, Str("ruff"))),
     Some(LintResults(FALSE, 1, 0, <<[message |-> "m", line |-> 1]>>,
                      Str("ruff"))),
     Some(LintResults(FALSE, 0, 0, <<>>, Str("flake8")))}

TypecheckSignals ==
    {None,
     Some(TypeCheckResults(TRUE, 0, <<>>, Str("mypy"))),
     Some(TypeCheckResults(FALSE, 0, <<>>, Str("pyright")))}

Contexts == {None, Some(""), Some("# File: a.py")}

Verifications ==
    {CodeVerification(p, t, l, c) :
        p \in BOOLEAN, t \in TestsSignals, l \in LintSignals,
        c \in TypecheckSignals}

InitTrace ==
    /\ NormIdle
    /\ op = NoOp
    /\ res = NoResult
    /\ trace \in {CodeTrace(SampleTask, SampleArtifact, v, c, None) :
                    v \in Verifications, c \in Contexts}
    /\ payload = NoPayload
    /\ pc = "built"
    /\ ClientIdle
    /\ BatchIdle
    /\ CollectIdle
    /\ DiffIdle

\* trace.verification.all_passed is read
AllPassed ==
    /\ pc = "built"
    /\ op' = [name |-> "all_passed"]
    /\ res' = Return(all_passed(trace.verification))
    /\ pc' = "done"
    /\ UNCHANGED <<family, out, rc, trace, payload, config, http, batchVars,
                   collectVars, diffVars>>

\* trace.to_cert_trace() is called
Serialized ==
    /\ pc = "built"
    /\ op' = [name |-> "to_cert_trace"]
    /\ payload' = to_cert_trace(trace)
    /\ res' = Return("dict")
    /\ pc' = "done"
    /\ UNCHANGED <<family, out, rc, trace, config, http, batchVars,
                   collectVars, diffVars>>

NextTrace == AllPassed \/ Serialized

SpecTrace == InitTrace /\ [][NextTrace]_vars

----------------------------------------------------------------------------
(* Properties of the normalizers *)

Applied == pc # "input"
Returned == Applied /\ res.exc = "none"

TestParsers ==
    {"parse_pytest", "parse_jest", "parse_go_test", "parse_cargo_test",
     "parse_generic_test_output"}
LintParsers ==
    {"parse_ruff", "parse_eslint", "parse_golangci", "parse_clippy",
     "parse_generic_lint_output"}
TypecheckParsers ==
    {"parse_mypy", "parse_tsc", "parse_go_vet", "parse_generic_typecheck_output"}

\* C1: every test parser reports passed exactly when the exit code is zero
\* and the parsed failed count is zero.
C1_PassedIffExitZeroAndNoFailures ==
    (Returned /\ op.name \in TestParsers) =>
        (res.val.passed <=> (rc = 0 /\ res.val.failed = 0))

\* C2: every lint parser reports passed exactly when the exit code is zero
\* and the parsed error_count is zero.
C2_LintPassedIffExitZeroAndNoErrors ==
    (Returned /\ op.name \in LintParsers) =>
        (res.val.passed <=> (rc = 0 /\ res.val.error_count = 0))

\* C3: every typecheck parser reports passed exactly when the exit code is
\* zero and the parsed error_count is zero.
C3_TypecheckPassedIffExitZeroAndNoErrors ==
    (Returned /\ op.name \in TypecheckParsers) =>
        (res.val.passed <=> (rc = 0 /\ res.val.error_count = 0))

Label(r) == IF "framework" \in DOMAIN r THEN r.framework ELSE r.tool

\* C4: when the executable is not found, run_tests, run_lint and
\* run_typecheck return passed=True with a label containing "(not found)",
\* without raising.
C4_NotFoundFailsOpen ==
    (Applied /\ op.name \in {"run_tests", "run_lint", "run_typecheck"}
             /\ op.oc = "notfound") =>
        /\ res.exc = "none"
        /\ res.val.passed
        /\ Contains(Label(res.val), " (not found)")

\* C5: whenever the tool times out the signal reports failure with one
\* synthetic issue describing the timeout (error_count = 1 and one entry for
\* lint/typecheck, the timeout message in the output for tests), whatever
\* the partial output; for run_tests, run_lint, run_typecheck and the
\* collector's lint and typecheck runners.
C5_TimeoutReportsFailure ==
    (Applied /\ op.oc = "timeout") =>
        /\ res.exc = "none"
        /\ ~res.val.passed
        /\ family = "tests" => Contains(res.val.output, Msg("Test timeout after"))
        /\ family # "tests" => (res.val.error_count = 1 /\ Len(res.val.errors) = 1)

\* C6: for every output and exit code each parse function returns a result
\* and never raises, and an output that is not valid JSON is routed to the
\* text fallback (no structured entries; passed decided by the exit code).
JsonDocumentParsers == {"parse_jest", "parse_ruff", "parse_eslint", "parse_golangci"}

C6_ParsersNeverRaise ==
    Applied =>
        /\ res.exc = "none"
        /\ (op.name \in JsonDocumentParsers /\ \A i \in 1..Len(out) : out[i].k # "json")
              => /\ res.val.passed = (rc = 0)
                 /\ "errors" \in DOMAIN res.val => res.val.errors = <<>>

\* the number of issues of a severity in the JSON report a lint parser decodes
ReportedIssues(name, doc, severity) ==
    CASE name = "parse_ruff" ->
           Cardinality({i \in 1..Len(doc.items) :
               LET code == Get(doc.items[i].d, "code", JStr(<<>>)).s
               IN  (severity = "error") <=> (code # <<>> /\ code[1] \in {"E", "F"})})
      [] name = "parse_eslint" ->
           SumSeq([f \in 1..Len(doc.items) |->
               LET messages == Get(doc.items[f].d, "messages", <<>>)
               IN  Cardinality({m \in 1..Len(messages) :
                       (severity = "error") <=> (messages[m].severity = 2)})])
      [] name = "parse_golangci" ->
           IF severity = "error"
           THEN Len(Get(doc.d, "Issues", JList(<<>>)).items) ELSE 0

\* the number of lines of the text that are type checker diagnostics of the
\* parser's form, or clippy messages of the level
MatchingLines(name, text, severity) ==
    Cardinality({i \in 1..Len(text) :
        CASE name = "parse_mypy" -> text[i].k = "mypy"
          [] name = "parse_tsc" -> text[i].k = "tsc"
          [] name = "parse_go_vet" -> text[i].k = "govet"
          [] name = "parse_clippy" -> ClippyLevel(text[i]) = severity})

StructuredLint == {"parse_ruff", "parse_eslint", "parse_golangci"}
LineParsers == {"parse_mypy", "parse_tsc", "parse_go_vet", "parse_clippy"}

\* C7: every LintResults and TypeCheckResults of a normalizer carries at
\* most 50 entries in errors while error_count and warning_count are the
\* numbers of issues parsed, and the lint/typecheck detail lists of the
\* trace payload have at most 50 entries.
C7_ErrorsCappedCountsTrue ==
    /\ (Returned /\ family \in {"lint", "typecheck"}) =>
          /\ Len(res.val.errors) <= Limit
          /\ (op.name \in StructuredLint /\ JsonLoads(out).ok) =>
                /\ res.val.error_count = ReportedIssues(op.name, JsonLoads(out).v, "error")
                /\ res.val.warning_count = ReportedIssues(op.name, JsonLoads(out).v, "warning")
          /\ op.name \in LineParsers =>
                res.val.error_count = MatchingLines(op.name, out, "error")
          /\ op.name = "parse_clippy" =>
                res.val.warning_count = MatchingLines(op.name, out, "warning")
    /\ pc = "traced" =>
          /\ family = "lint" => Len(payload.metadata.lint_errors_detail[1]) <= Limit
          /\ family = "typecheck" =>
                Len(payload.metadata.typecheck_errors_detail[1]) <= Limit

\* more than 50 issues were parsed, reported in full by the count and cut to
\* 50 in the result and in the payload
C7_Witness ==
    /\ pc = "traced"
    /\ op.name = "parse_ruff"
    /\ res.val.error_count > Limit
    /\ Len(res.val.errors) = Limit
    /\ Len(payload.metadata.lint_errors_detail[1]) = Limit


----------------------------------------------------------------------------
(* Properties of the submission client *)

\* C8: while submit_batch runs with concurrency k, the number of submissions
\* that have acquired the semaphore and not yet finished never exceeds k,
\* whatever the interleaving of starts and completions
C8_InFlightAtMostConcurrency ==
    /\ Cardinality(InFlight) <= concurrency
    /\ sem >= 0

\* k >= 2 submissions are in flight and another trace waits for a slot
C8_Witness ==
    /\ concurrency >= 2
    /\ Cardinality(InFlight) = concurrency
    /\ Waiting # {}

\* the result the i-th entry of a returned batch must be: the outcome of the
\* i-th trace's own POST
AnswersTrace(result, i) ==
    LET posted == tasks[i].http
    IN  IF posted.kind = "response" /\ posted.status_code < 400
        THEN result.success /\ result.trace_id = Some(ServerIds[i])
        ELSE ~result.success /\ result.error # None

\* C9: submit_batch returns one SubmitResult per trace, the i-th for the i-th
\* trace, and a failed submission (transport error or error response) of one
\* trace never makes the batch raise
C9_OneResultPerTraceInOrder ==
    /\ batch.state # "raised"
    /\ batch.state = "returned" =>
        /\ Len(batch.results) = Len(traces)
        /\ \A i \in 1..Len(traces) : AnswersTrace(batch.results[i], i)

SubmitOps == {"CertClient.submit", "CertAsyncClient.submit"}

\* the id in the body of a success response, "id" before "trace_id"
ServerTraceId(posted) ==
    LET d == posted.body.v.d
    IN  IF "id" \in DOMAIN d /\ d.id # "" THEN Some(d.id)
        ELSE IF "trace_id" \in DOMAIN d THEN Some(d.trace_id)
        ELSE None

\* C10: for every outcome of the POST (transport error, any status code, with
\* or without a JSON body) submit of either client returns a SubmitResult and
\* never raises: success with the server's trace id, or failure with an error
C10_SubmitNeverRaises ==
    (Applied /\ op.name \in SubmitOps) =>
        /\ res.exc = "none"
        /\ res.val.success =>
            /\ res.val.error = None
            /\ res.val.trace_id = ServerTraceId(http)
        /\ ~res.val.success => res.val.error # None


\* the "error" field of a response body that is a JSON object with one
ServerMessage(posted) ==
    IF posted.body.content = "json" /\ posted.body.v.t = "dict"
    THEN PyGet(posted.body.v.d, "error")
    ELSE None

\* C11: a response with a status code of 400 or above makes submit, sync or
\* async, return success=False with an error that carries the response's
\* status code and the server's own error message (the body's "error" field)
C11_ErrorCarriesStatusAndServerMessage ==
    (Applied /\ op.name \in SubmitOps /\ http.kind = "response"
        /\ http.status_code >= 400) =>
        /\ res.exc = "none"
        /\ ~res.val.success
        /\ res.val.error # None
        /\ res.val.error[1].prefix = "CERT API Error"
        /\ res.val.error[1].status_code = http.status_code
        /\ ServerMessage(http) # None =>
              res.val.error[1].message = ServerMessage(http)[1]


----------------------------------------------------------------------------
(* Properties of the collector *)

\* the collector went through _build_verification and submitted
Verified == pc = "done" /\ op.name \in {"from_diff", "from_commit"} /\ submits = 1

FlagOf(f) ==
    CASE f = "tests" -> flags.run_tests
      [] f = "lint" -> flags.run_lint
      [] f = "typecheck" -> flags.run_typecheck

DefaultOf(f) ==
    CASE f = "tests" -> config.auto_run_tests
      [] f = "lint" -> config.auto_run_lint
      [] f = "typecheck" -> config.auto_run_typecheck

\* C12: for tests, lint and typecheck an explicit per-call override decides
\* whether the normalizer runs, whatever the configuration default: --no-x
\* with a default of 'run' means the normalizer is not invoked, and only an
\* unset override defers to the default
C12_ExplicitOverrideWins ==
    Verified =>
        \A f \in Families :
            (f \in invoked) <=> IF FlagOf(f) # None THEN FlagOf(f)[1]
                                ELSE DefaultOf(f)

\* the signals requested: option flag or configuration default true
RequestedSignals ==
    {f \in Families :
        CASE f = "tests" -> options.run_tests \/ config.auto_run_tests
          [] f = "lint" -> options.run_lint \/ config.auto_run_lint
          [] f = "typecheck" -> options.run_typecheck \/ config.auto_run_typecheck}

\* C13: whatever the requested tools do, _build_verification produces one
\* CodeVerification in which tests, lint and typecheck are non-None exactly
\* for the requested signals; with nothing requested no tool is run and the
\* result is parseable=True with tests, lint and typecheck all None
C13_OneVerificationPerRequest ==
    (pc = "done" /\ op.name = "from_diff") =>
        /\ trace # NoTrace
        /\ trace.verification.parseable \in BOOLEAN
        /\ (trace.verification.tests # None) <=> ("tests" \in RequestedSignals)
        /\ (trace.verification.lint # None) <=> ("lint" \in RequestedSignals)
        /\ (trace.verification.typecheck # None) <=>
               ("typecheck" \in RequestedSignals)
        /\ invoked = RequestedSignals
        /\ RequestedSignals = {} => trace.verification = Unverified

\* C14: whatever each requested tool does (success, non-zero exit, timeout,
\* executable missing, any other error while launching it), from_diff
\* assembles the trace, calls client.submit exactly once and returns that
\* call's result; no per-tool error leaves from_diff
C14_ToolErrorsAbsorbed ==
    (pc = "done" /\ op.name = "from_diff") =>
        /\ res.exc = "none"
        /\ submits = 1
        /\ res = CertClient_submit(http)

\* C15: from_commit returns a failure and never calls client.submit when
\* there is no computable diff: an empty or whitespace-only diff gives
\* success=False with an error containing "No changes", a failing git
\* invocation gives success=False with a git error message
C15_NoDiffAbortsEarly ==
    (pc = "done" /\ op.name = "from_commit") =>
        /\ (world.git.oc = "completed" /\ is_blank_text(world.git.stdout)) =>
            /\ submits = 0
            /\ res = Return(SubmitResult(FALSE, None,
                                Some([prefix |-> "No changes in commit"]), None))
        /\ world.git.oc # "completed" =>
            /\ submits = 0
            /\ res.exc = "none"
            /\ ~res.val.success
            /\ res.val.error # None
            /\ res.val.error[1].prefix = "Git error"

\* C16: constructing CertClient or CertAsyncClient with a missing or empty
\* API key raises ValueError before the HTTP client exists, so no request
\* is ever sent without a credential
C16_NoClientWithoutApiKey ==
    /\ (pc # "new" /\ ~Truthy(config.api_key)) =>
          pc = "failed" /\ res = Raise("ValueError") /\ submits = 0
    /\ submits > 0 => Truthy(config.api_key)

\* a constructor was given an empty key and raised
C16_Witness ==
    /\ pc = "failed"
    /\ config.api_key = Some("")
    /\ op.name = "__init__"
    /\ res = Raise("ValueError")


----------------------------------------------------------------------------
(* Properties of the diff analyzer *)

Did(name) == pc = "done" /\ op.name = name

HeaderLines(d) == {i \in 1..Len(d) : d[i].k = "hdr"}

\* the first line at which a `diff --git` header names the new-side path p
FirstSeen(d, p) ==
    CHOOSE i \in HeaderLines(d) :
        /\ d[i].new = p
        /\ \A j \in HeaderLines(d) : d[j].new = p => i <= j

\* C17: for a diff with N distinct `diff --git` headers parse_diff returns a
\* files_changed list of exactly N unique new-side paths in first-seen
\* order, and diff_stats.files_changed is the length of that list
C17_OneFilePerHeader ==
    Did("parse_diff") =>
        LET fc == res.val.files_changed
            headers == {patch[i] : i \in HeaderLines(patch)}
        IN  /\ Len(fc) = Cardinality(headers)
            /\ \A i, j \in 1..Len(fc) : i # j => fc[i] # fc[j]
            /\ \A i \in 1..Len(fc) : \E h \in headers : h.new = fc[i]
            /\ \A i, j \in 1..Len(fc) :
                  i < j => FirstSeen(patch, fc[i]) < FirstSeen(patch, fc[j])
            /\ res.val.diff_stats.files_changed = Len(fc)

\* the lines that begin with c but not with ccc
Marked(d, c) ==
    {i \in 1..Len(d) :
        /\ d[i].k = "txt"
        /\ Len(d[i].s) >= 1 /\ d[i].s[1] = c
        /\ ~(Len(d[i].s) >= 3 /\ d[i].s[2] = c /\ d[i].s[3] = c)}

\* C18: parse_diff reports as additions the number of lines that begin with
\* "+" and not with the "+++" marker, as deletions the number of lines that
\* begin with "-" and not with "---", over the whole text, with or without
\* a `diff --git` header; no line is counted as both
C18_AdditionsAndDeletionsCounted ==
    Did("parse_diff") =>
        /\ res.val.diff_stats.additions = Cardinality(Marked(patch, "+"))
        /\ res.val.diff_stats.deletions = Cardinality(Marked(patch, "-"))
        /\ Marked(patch, "+") \cap Marked(patch, "-") = {}
        /\ res.val.diff_stats.additions + res.val.diff_stats.deletions
              <= Len(patch)

\* a headerless diff with a "+++" marker, an added and a removed line
C18_Witness ==
    /\ Did("parse_diff")
    /\ HeaderLines(patch) = {}
    /\ \E i \in 1..Len(patch) : starts_with(patch[i], "+", 3)
    /\ res.val.diff_stats.additions = 1
    /\ res.val.diff_stats.deletions = 1

\* the added lines of d, in order
AddedLines(d) ==
    SelectSeq([i \in 1..Len(d) |-> i], LAMBDA i : i \in Marked(d, "+"))

\* C19: extract_added_content returns the added lines in their order, each
\* without its leading "+", never a "+++ b/<path>" marker, a context line
\* or a removed line, and the empty string when nothing was added
C19_AddedContentStripped ==
    Did("extract_added_content") =>
        LET added == AddedLines(patch)
        IN  /\ added = <<>> => res.val = EmptyText
            /\ added # <<>> =>
                /\ Len(res.val) = Len(added)
                /\ \A j \in 1..Len(added) :
                      <<"+">> \o res.val[j].s = patch[added[j]].s
            /\ \A j \in 1..Len(res.val) : ~starts_with(res.val[j], "+", 3)

\* a diff with a "+++" marker, an added line whose text starts with "+",
\* and a line that is not added
C19_Witness ==
    /\ Did("extract_added_content")
    /\ \E i \in 1..Len(patch) : starts_with(patch[i], "+", 3)
    /\ \E i \in 1..Len(patch) :
          patch[i].k = "txt" /\ ~starts_with(patch[i], "+", 1)
    /\ res.val = <<DiffLine(<<"+", "x">>)>>

MappedFiles(fs) == {i \in 1..Len(fs) : detect_language(fs[i]) # "other"}

\* the accumulated weight of a language: 2 for each of its files with a
\* priority extension, 1 for each other
Weight(fs, lang) ==
    SumSeq([i \in 1..Len(fs) |->
              IF detect_language(fs[i]) # lang THEN 0
              ELSE IF extension(fs[i])[1] \in priority_extensions THEN 2
              ELSE 1])

\* the number of mapped files with extension e
Frequency(fs, e) ==
    Cardinality({i \in MappedFiles(fs) : extension(fs[i])[1] = e})

MappedExtensions(fs) == {extension(fs[i])[1] : i \in MappedFiles(fs)}

\* OTHER without a mapped file, else a language of highest weight
HighestWeight(fs, lang) ==
    IF MappedFiles(fs) = {} THEN lang = "other"
    ELSE /\ lang # "other"
         /\ \A i \in MappedFiles(fs) :
               Weight(fs, detect_language(fs[i])) <= Weight(fs, lang)

FirstFile(fs, lang) ==
    Min({i \in MappedFiles(fs) : detect_language(fs[i]) = lang})

\* C27: when several languages share the highest weight, the one that was
\* encountered first in the file list wins
C27_TieGoesToFirstEncountered ==
    (Did("detect_primary_language") /\ MappedFiles(paths) # {}) =>
        \A i \in MappedFiles(paths) :
            Weight(paths, detect_language(paths[i])) = Weight(paths, res.val)
                => FirstFile(paths, res.val) <= i

\* css and python both reach 2, python before css does; css came first
C27_Witness ==
    /\ Did("detect_primary_language")
    /\ paths = <<<<"style", "css">>, MainPy, <<"style", "css">>>>
    /\ Weight(paths, "css") = Weight(paths, "python")
    /\ res.val = "css"

\* what the client of the other class returns for the same POST
OtherClient_submit(cls, posted) ==
    IF cls = "CertClient" THEN CertAsyncClient_submit(posted)
    ELSE CertClient_submit(posted)

\* C29: CertClient.submit and CertAsyncClient.submit are equivalent: for
\* the same trace, configuration and response or transport error both
\* return the same SubmitResult and default the project_id the same way
C29_SyncAndAsyncAgree ==
    (pc = "done" /\ op.name \in SubmitOps) =>
        /\ res = OtherClient_submit(op.cls, http)
        /\ Truthy(config.project_id) => Truthy(trace.project_id)

----------------------------------------------------------------------------
(* Properties of the data model *)

Present(v) == {f \in Families : v[f] # None}

\* C21: all_passed is the AND of parseable and of the passed flags of the
\* signals that are present; absent signals do not matter and a present
\* result counts whatever its counts are
C21_AllPassedIsAndOfPresent ==
    (pc = "done" /\ op.name = "all_passed") =>
        LET v == trace.verification
        IN  res.val = (v.parseable /\ \A f \in Present(v) : v[f][1].passed)

\* a failing result without any count is the only thing that fails
C21_Witness ==
    /\ pc = "done"
    /\ op.name = "all_passed"
    /\ trace.verification.parseable
    /\ trace.verification.tests # None
    /\ trace.verification.tests[1].total = 0
    /\ ~trace.verification.tests[1].passed
    /\ trace.verification.lint = None
    /\ trace.verification.typecheck = None
    /\ res.val = FALSE

RequiredKeys ==
    {"name", "kind", "evaluation_mode", "eval_mode", "input_text",
     "output_text", "context", "knowledge_base", "is_grounded",
     "context_source", "code_language", "code_files_changed",
     "code_diff_stats", "code_parseable", "code_tests_passed",
     "code_tests_total", "code_tests_failed", "code_type_check_passed",
     "code_lint_errors", "metadata", "start_time", "source"}

MetadataKeys ==
    {"cert_code_version", "tool", "conversation_id", "test_framework",
     "test_output", "lint_tool", "lint_errors_detail", "typecheck_tool",
     "typecheck_errors_detail"}

\* the record p has every key, with nulls for the signals v lacks
Total(p, v) ==
    /\ RequiredKeys \subseteq DOMAIN p
    /\ MetadataKeys \subseteq DOMAIN p.metadata
    /\ v.tests = None =>
          /\ p.code_tests_passed = None
          /\ p.code_tests_total = None
          /\ p.code_tests_failed = None
          /\ p.metadata.test_framework = None
          /\ p.metadata.test_output = None
    /\ v.tests # None =>
          /\ p.code_tests_passed = Some(v.tests[1].passed)
          /\ p.code_tests_total = Some(v.tests[1].total)
          /\ p.code_tests_failed = Some(v.tests[1].failed)
    /\ v.typecheck = None =>
          /\ p.code_type_check_passed = None
          /\ p.metadata.typecheck_tool = None
          /\ p.metadata.typecheck_errors_detail = None
    /\ v.typecheck # None =>
          p.code_type_check_passed = Some(v.typecheck[1].passed)
    /\ v.lint = None =>
          /\ p.code_lint_errors = 0
          /\ p.metadata.lint_tool = None
          /\ p.metadata.lint_errors_detail = None
    /\ v.lint # None => p.code_lint_errors = v.lint[1].error_count

\* C22: to_cert_trace is total: for each combination of present and absent
\* signals the record has every key, with None for the fields of an absent
\* signal (0 for code_lint_errors), and the call leaves the trace unchanged
C22_ToCertTraceTotal ==
    [][(pc = "built" /\ op'.name = "to_cert_trace") =>
          /\ Total(payload', trace.verification)
          /\ trace' = trace]_vars

\* the all-None verification was serialized
C22_Witness ==
    /\ pc = "done"
    /\ op.name = "to_cert_trace"
    /\ Present(trace.verification) = {}
    /\ payload.code_tests_passed = None
    /\ payload.code_lint_errors = 0
    /\ payload.metadata.lint_errors_detail = None

\* C23: the grounded flag and the context-source tag agree: both are set
\* when the context is a string, neither when it is None
C23_GroundedAgreesWithSource ==
    (pc = "done" /\ op.name = "to_cert_trace") =>
        /\ trace.context # None =>
              /\ payload.is_grounded
              /\ payload.context_source = Some("user_provided")
        /\ trace.context = None =>
              /\ ~payload.is_grounded
              /\ payload.context_source = None

----------------------------------------------------------------------------
(* Properties of the fallbacks *)

\* the text holds prose only: no line of it is JSON or a piece of JSON
Garbage(text) == \A i \in 1..Len(text) : text[i].k \in {"text", "blank"}

\* occurrences of the word, in any case, over the lines of the text
Occurrences(text, word) ==
    SumSeq([i \in 1..Len(text) |-> CountAnyCase(text[i], word)])

\* C24: on output that is not JSON and exit code 1, every lint parser
\* returns passed = False, error_count = the case-insensitive occurrences
\* of "error" in the output and warning_count = those of "warning"
C24_LintFallbackCountsOccurrences ==
    (Returned /\ op.name \in LintParsers /\ Garbage(out) /\ rc = 1) =>
        /\ res.val.passed = FALSE
        /\ res.val.error_count = Occurrences(out, "error")
        /\ res.val.warning_count = Occurrences(out, "warning")

JestRunners == {"parse_jest", "JestIntegration.run"}

\* the Jest reports among the lines of the text
JestReports(text) ==
    SelectSeq(text, LAMBDA l :
        /\ l.k = "json"
        /\ l.v.t = "dict"
        /\ {"success", "numTotalTests", "numFailedTests", "numPendingTests",
            "testResults"} \subseteq DOMAIN l.v.d)

\* the text is one aggregate Jest report and nothing but blank lines
IsJestReport(text) ==
    Len(JestReports(text)) = 1 /\ Len(NonBlankLines(text)) = 1

SuitesDuration(suites) ==
    SumSeq([i \in 1..Len(suites) |-> suites[i].endTime - suites[i].startTime])

\* C25: for one aggregate Jest report with any number of suites,
\* duration_ms is the sum over the suites of endTime - startTime and total,
\* failed and skipped are the top-level counts of the report, for parse_jest
\* and for JestIntegration
C25_JestDurationSumsSuites ==
    (Applied /\ op.name \in JestRunners /\ IsJestReport(out)) =>
        LET report == JestReports(out)[1].v.d
        IN  /\ res.exc = "none"
            /\ res.val.duration_ms = SuitesDuration(report.testResults)
            /\ res.val.total = report.numTotalTests
            /\ res.val.failed = report.numFailedTests
            /\ res.val.skipped = report.numPendingTests

TestRunners ==
    TestParsers \cup {"JestIntegration.run", "PytestIntegration.run"}

\* C30: every TestResults a test parser or a test integration produces has
\* failed + skipped <= total, so success_rate lies between 0 and 1
C30_CountsConsistent ==
    (Returned /\ op.name \in TestRunners) =>
        /\ res.val.failed + res.val.skipped <= res.val.total
        /\ 0 <= success_rate(res.val)[1]
        /\ success_rate(res.val)[1] <= success_rate(res.val)[2]

----------------------------------------------------------------------------
(* Properties of the context loader *)

Loaded == pc = "done" /\ op.name = "_load_context"

Readable(f) == f.state = "readable"

\* the characters of the readable files before files[i]
Before(files, i) ==
    SumSeq([j \in 1..(i - 1) |-> IF Readable(files[j]) THEN files[j].size ELSE 0])

\* files[i] is the first file that does not fit in what is left of max_size
Overflows(files, max_size, i) ==
    /\ Readable(files[i])
    /\ Before(files, i) + files[i].size > max_size
    /\ \A j \in 1..(i - 1) :
          ~(Readable(files[j]) /\ Before(files, j) + files[j].size > max_size)

\* C26: _load_context enforces context_max_size by truncation: a readable
\* file larger than the remaining budget is in the result, cut to the
\* budget; the content kept never exceeds context_max_size; missing files
\* are skipped and the result is None when no file can be read
C26_ContextTruncatedToLimit ==
    Loaded =>
        LET files == files_to_load(options.context_files, config)
            max_size == config.context_max_size
            parts == IF res.val = None THEN <<>> ELSE res.val[1]
        IN  /\ \A i \in 1..Len(files) :
                  Overflows(files, max_size, i) =>
                      /\ res.val # None
                      /\ \E k \in 1..Len(parts) :
                            /\ parts[k].file = i
                            /\ parts[k].truncated
                            /\ parts[k].kept = max_size - Before(files, i)
            /\ SumSeq([k \in 1..Len(parts) |-> parts[k].kept]) <= max_size
            /\ \A k \in 1..Len(parts) : Readable(files[parts[k].file])
            /\ (\A i \in 1..Len(files) : ~Readable(files[i])) => res.val = None

----------------------------------------------------------------------------
(* Progress of submit_batch *)

\* every trace was submitted once and every slot taken was given back
AllSubmitted ==
    /\ \A i \in 1..Len(tasks) : tasks[i].pc \in {"done", "raised"}
    /\ Len(order) = Len(tasks)
    /\ \A i \in 1..Len(tasks) : \E k \in 1..Len(order) : order[k] = i
    /\ sem = Semaphore(concurrency)

\* C28: for every list of traces and every accepted concurrency the batch
\* eventually completes: every trace is submitted exactly once, every slot
\* is released whether the submission succeeded or failed, and no
\* submission waits forever for a slot
C28_BatchEventuallyCompletes == <>[](AllSubmitted /\ Waiting = {})

====
